---- MODULE Spec2Model ----
(***************************************************************************)
(* Verification model of the jkl texture codec (zakarumych/jkl):           *)
(*   - src/src/bits.rs     bit writer / bit reader over a u128 buffer      *)
(*   - src/src/lzw.rs      LZW encoder / decoder with growing code width   *)
(*   - src/src/z_curve.rs  bounded Z-order iterator                        *)
(*   - src/src/jackal.rs   container: header, index, super-block payloads  *)
(*   - src/src/jackal/header.rs  header of the "JKLI" container generation *)
(*   - src/src/nn.rs       the predictor's linear layer                    *)
(*   - src/src/bc1.rs      BC1 block decode (palette selection)            *)
(* Machine integers wider than 31 bits (u128 buffer, u32 masks) are kept   *)
(* as little-endian bit vectors (sequences of 0/1, least significant bit   *)
(* first) so that shifts, masks and ors are computed as the code does.     *)
(***************************************************************************)
EXTENDS Integers, Sequences, FiniteSets, TLC

VARIABLES
    \* ---- lzw.rs / bits.rs session -------------------------------------
    input,       \* symbols handed to Encoder::encode, in order
    fed,         \* number of symbols already encoded
    encoder,     \* lzw::Encoder { entries, prefix }
    writeBits,   \* bits::WriteBits { buffer, buffer_len }
    compressed,  \* the Vec<u8> sink behind WriteBits / source behind ReadBits
    decoder,     \* lzw::Decoder { scratch, entries, output, last }
    readBits,    \* bits::ReadBits { buffer, buffer_len } and source position
    decoded,     \* symbols returned by Decoder::decode_next so far
    lzwPc,       \* "idle" | "encode" | "decode" | "done" | "error" | "panic"
    lzwLog,      \* history: stream kind, emitted codes, codes read, error
    \* ---- z_curve.rs ------------------------------------------------------
    zcurve,      \* BoundZCurve { width, height, next_index }
    zItems,      \* items returned by Iterator::next so far
    zPc,         \* "idle" | "iter" | "done" (next returned None)
    zVisited,    \* (x, y) the aspect loops of jackal.rs have visited in a
                 \* region of the curve's width and height
    \* ---- bc1.rs ----------------------------------------------------------
    bcBlock,     \* bc1::Block { color0, color1, texels } (endpoints as bits)
    bcColors,    \* the [[Rgb32F; 4]; 4] returned by Block::decode
    bcPc,        \* "idle" | "tile" | "block" | "decoded" | "bytes" | "restored"
    bcTile,      \* the [[Rgb32F; 4]; 4] handed to Block::encode, if any
    bcBytes,     \* the [u8; 8] returned by Block::bytes, once called
    bcRestored,  \* the Block returned by Block::from_bytes, once called
    bcFit,       \* what Block::encode settled on: [mode, diagonal, nearest],
                 \* mode "flat" when it returned a block of one colour
    \* ---- jackal.rs container ---------------------------------------------
    jkExtent,    \* Extent handed to compress_bc1_texture
    jkBlocks,    \* the block grid handed to compress_bc1_texture
    jkModel,     \* the predictor Model::new() returns
    jkFile,      \* bytes of the Vec<u8> the container is written to
    jkResult,    \* result of decompress_bc1_texture: [err, extent, blocks]
    jkHeader,    \* result of read_header: [err, read, header]
    jkIndex,     \* index entries filled by read_jackal_blocks
    jkGrid,      \* caller's pre-allocated blocks for decompress_bc1_blocks
    jkDone,      \* super-blocks handed to decompress_bc1_blocks, in call order
    jkAlt,       \* a compress_bc1_blocks call on a second grid, once made
    jkPc,        \* "idle" | "blocks" | "file" | "decoded" | "header" | "index"
                 \* | "recompressed" | "error"
    \* ---- header parsing (jackal.rs, jackal/header.rs) --------------------
    hdrInput,    \* bytes handed to read_header
    hdrResult,   \* [gen, err, read, header] once read_header has returned
    hdrPc,       \* "idle" | "input" | "read" | "index"
    hdrIndex,    \* [err, entries] once read_jackal_blocks has returned
    \* ---- compress_texture, one stream operation at a time ----------------
    wrTexture,   \* [extent, blocks, m]: the arguments and the predictor
    wrSink,      \* the sink: [out, pos, replies, err], err the io::Error returned
    wrLoop,      \* [i, next_jackal_block_pos, next_data_pos]
    wrOps,       \* stream operations performed so far, in order
    wrRead,      \* result of read_header over an abandoned output
    wrPc,        \* "idle" | "start" | "entry" | "payload" | "done" | "failed"
                 \* | "abandoned"
    \* ---- bits.rs, requests of any width ------------------------------------
    btBuild,    \* "debug" | "release": whether overflow checks are compiled in
    btWrites,   \* the write_bits requests made so far: [buffer, bit_len]
    btWriter,   \* bits::WriteBits over a Vec<u8>: [buffer, buffer_len, out, pos]
    btReader,   \* bits::ReadBits over the bytes written
    btReads,    \* the arrays filled by the read_bits calls made so far
    btPc,       \* "idle" | "write" | "read" | "panic"
    \* ---- cluster_fit.rs, one call of cluster_fit ---------------------------
    cfBuild,    \* "debug" | "release": whether overflow checks are compiled in
    cfInput,    \* the call: [samples, I, remap, error]
    cfCuts,     \* cuts[1..I], the cut positions of the current candidate
    cfBest,     \* [endpoints, indices, error]: best_endpoints, best_indices, best_error
    cfLog,      \* the candidates the loop body has visited, in order
    cfPc,       \* "idle" | "seed" | "search" | "done" | "panic"
    \* ---- math.rs, Rgb565 and Rgb32F conversions ----------------------------
    qzBits,     \* the Rgb565 a colour is unpacked from, if any: <<bits>>
    qzColor,    \* the Rgb32F: three f32 channels [neg, m, e], value m * 2^e
    qzBack,     \* the Rgb565 returned by Rgb565::from_f32: <<bits>>
    qzPc        \* "idle" | "bits" | "color" | "done"

lzwVars == <<input, fed, encoder, writeBits, compressed, decoder, readBits,
             decoded, lzwPc, lzwLog>>

zVars == <<zcurve, zItems, zPc, zVisited>>

bc1Vars == <<bcBlock, bcColors, bcPc, bcTile, bcBytes, bcRestored, bcFit>>

jkVars == <<jkExtent, jkBlocks, jkModel, jkFile, jkResult, jkHeader, jkIndex,
            jkGrid, jkDone, jkAlt, jkPc>>

hdrVars == <<hdrInput, hdrResult, hdrPc, hdrIndex>>

wrVars == <<wrTexture, wrSink, wrLoop, wrOps, wrRead, wrPc>>

btVars == <<btBuild, btWrites, btWriter, btReader, btReads, btPc>>

cfVars == <<cfBuild, cfInput, cfCuts, cfBest, cfLog, cfPc>>

qzVars == <<qzBits, qzColor, qzBack, qzPc>>

vars == <<lzwVars, zVars, bc1Vars, jkVars, hdrVars, wrVars, btVars, cfVars, qzVars>>

\* what the operations of one subsystem leave alone
notLzwVars == <<zVars, bc1Vars, jkVars, hdrVars, wrVars, btVars, cfVars, qzVars>>

notZVars == <<lzwVars, bc1Vars, jkVars, hdrVars, wrVars, btVars, cfVars, qzVars>>

notBc1Vars == <<lzwVars, zVars, jkVars, hdrVars, wrVars, btVars, cfVars, qzVars>>

notJkVars == <<lzwVars, zVars, bc1Vars, hdrVars, wrVars, btVars, cfVars, qzVars>>

notHdrVars == <<lzwVars, zVars, bc1Vars, jkVars, wrVars, btVars, cfVars, qzVars>>

notWrVars == <<lzwVars, zVars, bc1Vars, jkVars, hdrVars, btVars, cfVars, qzVars>>

notBtVars == <<lzwVars, zVars, bc1Vars, jkVars, hdrVars, wrVars, cfVars, qzVars>>

notCfVars == <<lzwVars, zVars, bc1Vars, jkVars, hdrVars, wrVars, btVars, qzVars>>

notQzVars == <<lzwVars, zVars, bc1Vars, jkVars, hdrVars, wrVars, btVars, cfVars>>

(***************************************************************************)
(* Bounds of the model.                                                    *)
(***************************************************************************)
MaxLen == 4          \* longest exhaustively enumerated LZW input
MaxStream == 3       \* longest exhaustively enumerated raw decoder input
MaxRequests == 4     \* decode_next calls made on a raw decoder input
MaxDim == 5          \* largest width and height given to BoundZCurve::new
FootprintEdge == 2   \* super-block edge in blocks (footprint_from_size: 1024)
MaxExtent == 3       \* largest width, height, depth and layer count of a texture
MaxBlocks == 4       \* largest number of blocks in a texture

(***************************************************************************)
(* Machine arithmetic helpers.                                             *)
(***************************************************************************)
Min2(a, b) == IF a < b THEN a ELSE b

Max2(a, b) == IF a > b THEN a ELSE b

\* little-endian bit vector of the w low bits of n
RECURSIVE BitsOf(_, _)
BitsOf(n, w) == IF w = 0 THEN <<>> ELSE <<n % 2>> \o BitsOf(n \div 2, w - 1)

\* value of a little-endian bit vector
RECURSIVE ValOf(_)
ValOf(bv) == IF Len(bv) = 0 THEN 0 ELSE Head(bv) + 2 * ValOf(Tail(bv))

\* u32::to_le_bytes
u32_to_le_bytes(v) ==
    << v % 256, (v \div 256) % 256, (v \div 65536) % 256, (v \div 16777216) % 256 >>

\* u32::from_le_bytes
u32_from_le_bytes(b) == b[1] + 256 * b[2] + 65536 * b[3] + 16777216 * b[4]

\* integer next_power_of_two (smallest power of two >= n)
RECURSIVE NextPow(_, _)
NextPow(n, p) == IF p >= n THEN p ELSE NextPow(n, 2 * p)

next_power_of_two(n) == NextPow(n, 1)

\* integer trailing_zeros for a value of the given bit width
RECURSIVE TzFrom(_, _, _)
TzFrom(n, k, width) ==
    IF k = width THEN width
    ELSE IF n % 2 = 1 THEN k ELSE TzFrom(n \div 2, k + 1, width)

trailing_zeros(n, width) == TzFrom(n, 0, width)

(***************************************************************************)
(* u128 as a bit vector of exactly 128 bits.                               *)
(***************************************************************************)
U128Bits == 128

U128Zero == [i \in 1..U128Bits |-> 0]

\* u128::from_le_bytes of a byte slice (missing high bytes are zero)
U128FromBytes(bytes) ==
    [i \in 1..U128Bits |->
        IF (i - 1) \div 8 < Len(bytes)
        THEN (bytes[((i - 1) \div 8) + 1] \div (2 ^ ((i - 1) % 8))) % 2
        ELSE 0]

\* the first n bytes of u128::to_le_bytes
U128ToBytes(v, n) ==
    [j \in 1..n |-> ValOf(SubSeq(v, 8 * (j - 1) + 1, 8 * j))]

\* a mask that keeps every bit
U128Mask_KeepAll(v, n) == v

\* v & ((1 << n) - 1)
U128Mask(v, n) == [i \in 1..U128Bits |-> IF i <= n THEN v[i] ELSE 0]

\* v >> n
U128Shr(v, n) == [i \in 1..U128Bits |-> IF i + n <= U128Bits THEN v[i + n] ELSE 0]

\* v << n
U128Shl(v, n) == [i \in 1..U128Bits |-> IF i > n THEN v[i - n] ELSE 0]

\* a | b
U128Or(a, b) == [i \in 1..U128Bits |-> Max2(a[i], b[i])]


(***************************************************************************)
(* In-memory sink and source (Vec<u8> / Cursor / &[u8]) used by the tests  *)
(* and by the container: Write::write stores every byte it is given at the *)
(* cursor position, Read::read returns the bytes that are left, up to the  *)
(* number asked for, and 0 bytes at the end of the data; neither fails.    *)
(***************************************************************************)
CursorWrite(data, pos, bytes) ==
    [i \in 1..Max2(Len(data), pos + Len(bytes)) |->
        IF i > pos /\ i <= pos + Len(bytes) THEN bytes[i - pos]
        ELSE IF i <= Len(data) THEN data[i] ELSE 0]

SliceRead(data, pos, n) == SubSeq(data, pos + 1, Min2(Len(data), pos + n))

\* n zero bytes
Zeros(n) == [i \in 1..n |-> 0]

RECURSIVE SumTo(_, _)
\* f[1] + ... + f[n]
SumTo(f, n) == IF n = 0 THEN 0 ELSE f[n] + SumTo(f, n - 1)

(***************************************************************************)
(* Any other sink (impl Write): Write::write may store all the bytes it is *)
(* given, only the first of them (Ok(1)), none (Ok(0)), or fail (Err).     *)
(* `replies` lists what the sink answers to the next calls of write, one   *)
(* entry per call: "all" | "one" | "zero" | "err"; once the list is used   *)
(* up the sink stores everything, and <<>> is the in-memory sink above.    *)
(***************************************************************************)
Sink_write(out, pos, replies, bytes) ==
    LET Reply(reply, rest) ==
            LET Stored(n) ==
                    [err |-> reply = "err", n |-> n,
                     out |-> IF n = 0 THEN out ELSE CursorWrite(out, pos, SubSeq(bytes, 1, n)),
                     pos |-> pos + n, replies |-> rest]
            IN  Stored(IF reply = "all" THEN Len(bytes)
                       ELSE IF reply = "one" THEN Min2(1, Len(bytes))
                       ELSE 0)
    IN  IF replies = <<>> THEN Reply("all", <<>>) ELSE Reply(Head(replies), Tail(replies))

\* Write::write_all (std): write until every byte is stored; Ok(0) from the
\* sink is ErrorKind::WriteZero, an Err of the sink is returned as it is
RECURSIVE Write_write_all(_, _, _, _)
Write_write_all(out, pos, replies, bytes) ==
    IF bytes = <<>>
    THEN [err |-> "none", out |-> out, pos |-> pos, replies |-> replies]
    ELSE LET Wrote(r) ==
                 IF r.err
                 THEN [err |-> "Io", out |-> r.out, pos |-> r.pos, replies |-> r.replies]
                 ELSE IF r.n = 0
                 THEN [err |-> "WriteZero", out |-> r.out, pos |-> r.pos,
                       replies |-> r.replies]
                 ELSE Write_write_all(r.out, r.pos, r.replies,
                                      SubSeq(bytes, r.n + 1, Len(bytes)))
         IN  Wrote(Sink_write(out, pos, replies, bytes))

(***************************************************************************)
(* bits.rs: WriteBits                                                      *)
(*   state w: [buffer |-> u128, buffer_len |-> 0..128, out |-> bytes,      *)
(*             pos |-> cursor position of the sink, replies |-> what the   *)
(*             sink answers next, err |-> "none" or the io::Error a call   *)
(*             returned]                                                   *)
(* An Err is returned through `?` by every caller up to the one that       *)
(* started the write, so an operator given a writer with err set returns   *)
(* it as it is.                                                            *)
(* Intermediate values are bound as operator parameters, in the order the  *)
(* code assigns them.                                                      *)
(***************************************************************************)
WriteBits_new(out, pos) ==
    [buffer |-> U128Zero, buffer_len |-> 0, out |-> out, pos |-> pos,
     replies |-> <<>>, err |-> "none"]

\* copy_from_buffer: returns the updated writer and the rest of the request
WriteBits_copy_from_buffer(w, buffer0, bit_offset0, bit_len0) ==
    LET Ret(wr, buffer, bit_offset, bit_len) ==
            [w |-> wr, buffer |-> buffer, bit_offset |-> bit_offset, bit_len |-> bit_len]
        \* if buffer_free > 0 && bit_len > 0 { .. whole bytes .. }
        Aligned(wr, buffer, bit_offset, bit_len) ==
            IF U128Bits - wr.buffer_len > 0 /\ bit_len > 0
            THEN LET Copy(copy_len) ==
                         Ret([wr EXCEPT
                                !.buffer = U128Or(wr.buffer,
                                    U128Shl(U128Mask(U128FromBytes(
                                                SubSeq(buffer, 1, (copy_len + 7) \div 8)),
                                            copy_len),
                                            wr.buffer_len)),
                                !.buffer_len = wr.buffer_len + copy_len],
                             buffer, bit_offset + copy_len, bit_len - copy_len)
                 IN  Copy(Min2(U128Bits - wr.buffer_len, bit_len))
            ELSE Ret(wr, buffer, bit_offset, bit_len)
        \* if buffer_free > 0 && bit_len > 0 && bit_offset > 0 { .. }
        Unaligned(buffer, bit_offset, bit_len) ==
            IF U128Bits - w.buffer_len > 0 /\ bit_len > 0 /\ bit_offset > 0
            THEN LET Copy(copy_len) ==
                         LET Copied(wr) ==
                                 IF bit_offset + copy_len >= 8
                                 THEN Aligned(wr, Tail(buffer), 0, bit_len - copy_len)
                                 ELSE Ret(wr, buffer, bit_offset + copy_len,
                                          bit_len - copy_len)
                         IN  Copied([w EXCEPT
                                 !.buffer = U128Or(w.buffer,
                                     U128Shl(U128FromBytes(
                                         <<(buffer[1] \div (2 ^ bit_offset)) % (2 ^ copy_len)>>),
                                         w.buffer_len)),
                                 !.buffer_len = w.buffer_len + copy_len])
                 IN  Copy(Min2(Min2(U128Bits - w.buffer_len, 8 - bit_offset), bit_len))
            ELSE Aligned(w, buffer, bit_offset, bit_len)
    IN  Unaligned(IF bit_offset0 >= 8
                  THEN SubSeq(buffer0, (bit_offset0 \div 8) + 1, Len(buffer0))
                  ELSE buffer0,
                  bit_offset0 % 8, bit_len0)

\* flush: hands whole bytes to the sink once more than 8 bits are buffered;
\* ok is the bool it returns (false when the sink answered Ok(0))
WriteBits_flush(w) ==
    IF w.buffer_len > 8
    THEN LET Replied(r) ==
                 IF r.err
                 THEN [ok |-> FALSE, w |-> [w EXCEPT !.err = "Io", !.replies = r.replies]]
                 ELSE IF r.n = 0
                 THEN [ok |-> FALSE, w |-> [w EXCEPT !.replies = r.replies]]
                 ELSE [ok |-> TRUE,
                       w |-> [w EXCEPT
                                !.buffer = IF w.buffer_len - r.n * 8 > 0
                                           THEN U128Shr(w.buffer, r.n * 8) ELSE U128Zero,
                                !.buffer_len = w.buffer_len - r.n * 8,
                                !.out = r.out, !.pos = r.pos, !.replies = r.replies]]
         IN  Replied(Sink_write(w.out, w.pos, w.replies,
                                U128ToBytes(w.buffer, w.buffer_len \div 8)))
    ELSE [ok |-> TRUE, w |-> w]

\* write_bits: copy, and flush while bits of the request are left; when
\* flush returns false the call returns Ok with the bits copied so far
RECURSIVE WriteBits_write_bits(_, _, _, _)
WriteBits_write_bits(w, buffer, bit_offset, bit_len) ==
    LET Flushed(r, f) ==
            IF f.w.err # "none" \/ ~f.ok THEN f.w
            ELSE WriteBits_write_bits(f.w, r.buffer, r.bit_offset, r.bit_len)
        Copied(r) ==
            IF r.bit_len = 0 THEN r.w ELSE Flushed(r, WriteBits_flush(r.w))
    IN  IF w.err # "none" THEN w
        ELSE Copied(WriteBits_copy_from_buffer(w, buffer, bit_offset, bit_len))

\* a finish that writes the buffered bits without moving the sink position
WriteBits_finish_NoAdvance(w) ==
    IF w.buffer_len > 0
    THEN LET Written(write_bytes) ==
                 [w EXCEPT !.buffer_len = 0,
                           !.out = CursorWrite(w.out, w.pos, U128ToBytes(w.buffer, write_bytes))]
         IN  Written((w.buffer_len + 7) \div 8)
    ELSE w

\* finish: writes the buffered bits rounded up to whole bytes (write_all)
WriteBits_finish(w) ==
    IF w.err = "none" /\ w.buffer_len > 0
    THEN LET Written(r) ==
                 [w EXCEPT !.buffer_len = IF r.err = "none" THEN 0 ELSE @,
                           !.out = r.out, !.pos = r.pos, !.replies = r.replies,
                           !.err = r.err]
         IN  Written(Write_write_all(w.out, w.pos, w.replies,
                                     U128ToBytes(w.buffer, (w.buffer_len + 7) \div 8)))
    ELSE w

(***************************************************************************)
(* bits.rs: ReadBits                                                       *)
(*   state r: [buffer |-> u128, buffer_len |-> 0..128, pos |-> position in *)
(*             the source, overflow |-> a shift by the full width of the   *)
(*             buffer was executed]; the source bytes are passed alongside *)
(* `self.buffer >>= copy_len` with copy_len = 128 overflows the shift: a   *)
(* build with overflow checks panics there, a build without them shifts by *)
(* copy_len % 128.  The operators compute the unchecked outcome and record *)
(* the overflow; the caller decides by the build.                          *)
(***************************************************************************)
ReadBits_new(pos) ==
    [buffer |-> U128Zero, buffer_len |-> 0, pos |-> pos, overflow |-> FALSE]

\* fill_buffer: one Read::read of at most 16 bytes
ReadBits_fill_buffer(r, src, bit_len) ==
    LET Got(bytes) ==
            IF Len(bytes) = 0
            THEN [ok |-> FALSE, r |-> r]
            ELSE [ok |-> TRUE,
                  r |-> [r EXCEPT !.buffer = U128FromBytes(bytes),
                                  !.buffer_len = Len(bytes) * 8,
                                  !.pos = r.pos + Len(bytes)]]
    IN  Got(SliceRead(src, r.pos, Min2((bit_len + 7) \div 8, 16)))

\* a | b on bytes
U8Or(a, b) == ValOf([i \in 1..8 |-> Max2((a \div (2 ^ (i - 1))) % 2, (b \div (2 ^ (i - 1))) % 2)])

\* copy_from_buffer: dst is the caller's byte array, base the start of the
\* sub-slice the code currently holds
ReadBits_copy_from_buffer(r, dst0, base0, bit_offset0, bit_len0) ==
    LET Ret(rd, dst, base, bit_offset, bit_len) ==
            [r |-> rd, dst |-> dst, base |-> base,
             bit_offset |-> bit_offset, bit_len |-> bit_len]
        \* if self.buffer_len > 0 && bit_len > 0 { .. whole bytes .. }
        Aligned(rd, dst, base, bit_offset, bit_len) ==
            IF rd.buffer_len > 0 /\ bit_len > 0
            THEN LET Copy(copy_len) ==
                         LET Bytes(copy_bytes) ==
                                 Ret([rd EXCEPT !.buffer = U128Shr(rd.buffer,
                                                                   copy_len % U128Bits),
                                                !.buffer_len = rd.buffer_len - copy_len,
                                                !.overflow = rd.overflow
                                                             \/ copy_len >= U128Bits],
                                     [i \in 1..Len(dst) |->
                                        IF i > base /\ i <= base + Len(copy_bytes)
                                        THEN copy_bytes[i - base] ELSE dst[i]],
                                     base, bit_offset + copy_len, bit_len - copy_len)
                         IN  Bytes(U128ToBytes(U128Mask(rd.buffer, copy_len),
                                               (copy_len + 7) \div 8))
                 IN  Copy(Min2(rd.buffer_len, bit_len))
            ELSE Ret(rd, dst, base, bit_offset, bit_len)
        \* if self.buffer_len > 0 && bit_len > 0 && bit_offset > 0 { .. }
        Unaligned(base, bit_offset, bit_len) ==
            IF r.buffer_len > 0 /\ bit_len > 0 /\ bit_offset > 0
            THEN LET Copy(copy_len) ==
                         LET Copied(rd, dst) ==
                                 IF bit_offset + copy_len >= 8
                                 THEN Aligned(rd, dst, base + 1, 0, bit_len - copy_len)
                                 ELSE Ret(rd, dst, base, bit_offset + copy_len,
                                          bit_len - copy_len)
                         IN  Copied([r EXCEPT !.buffer = U128Shr(r.buffer, copy_len),
                                              !.buffer_len = r.buffer_len - copy_len],
                                    [dst0 EXCEPT ![base + 1] =
                                        U8Or(dst0[base + 1],
                                             (U128ToBytes(r.buffer, 1)[1] % (2 ^ copy_len))
                                                 * (2 ^ bit_offset))])
                 IN  Copy(Min2(Min2(r.buffer_len, 8 - bit_offset), bit_len))
            ELSE Aligned(r, dst0, base, bit_offset, bit_len)
    IN  Unaligned(IF bit_offset0 >= 8 THEN base0 + (bit_offset0 \div 8) ELSE base0,
                  bit_offset0 % 8, bit_len0)

\* read_bits loop: returns the reader, the filled array and the number of
\* bits actually read (less than asked for when the source is exhausted)
RECURSIVE ReadBits_loop(_, _, _, _, _, _, _)
ReadBits_loop(r, src, dst, base, bit_offset, bit_len, total) ==
    LET Copied(c) ==
            IF c.bit_len = 0
            THEN [r |-> c.r, dst |-> c.dst, bits_read |-> total + (bit_len - c.bit_len)]
            ELSE LET Filled(f) ==
                         IF ~f.ok
                         THEN [r |-> f.r, dst |-> c.dst,
                               bits_read |-> total + (bit_len - c.bit_len)]
                         ELSE ReadBits_loop(f.r, src, c.dst, c.base, c.bit_offset,
                                            c.bit_len, total + (bit_len - c.bit_len))
                 IN  Filled(ReadBits_fill_buffer(c.r, src, c.bit_len))
    IN  Copied(ReadBits_copy_from_buffer(r, dst, base, bit_offset, bit_len))

ReadBits_read_bits(r, src, dst, bit_offset, bit_len) ==
    IF bit_len = 0
    THEN [r |-> r, dst |-> dst, bits_read |-> 0]
    ELSE ReadBits_loop(r, src, dst, 0, bit_offset, bit_len, 0)

(***************************************************************************)
(* lzw.rs: Encoder<u8>                                                     *)
(*   Option<u32> is <<>> (None) or <<v>> (Some(v)).                        *)
(***************************************************************************)
T_ENTRIES == 256

Encoder_new == [entries |-> <<>>, prefix |-> <<>>]

\* lookup: linear scan from prefix.saturating_sub(T_ENTRIES); the answer is
\* the first position at or after i that holds the entry
Encoder_lookup_from(e, entry, i) ==
    LET hits == {j \in i..(Len(e.entries) - 1) : e.entries[j + 1] = entry}
    IN  IF hits = {} THEN <<>>
        ELSE <<(CHOOSE j \in hits : \A k \in hits : j <= k) + T_ENTRIES>>

\* a lookup that answers the code after the one it found
Encoder_lookup_NextCode(e, entry) ==
    LET Found(index) == IF index = <<>> THEN <<>> ELSE <<index[1] + 1>>
    IN  Found(Encoder_lookup_from(e, entry, Max2(entry.prefix - T_ENTRIES, 0)))

Encoder_lookup(e, entry) ==
    Encoder_lookup_from(e, entry, Max2(entry.prefix - T_ENTRIES, 0))

Encoder_insert(e, entry) == [e EXCEPT !.entries = Append(e.entries, entry)]

\* a width computed from next_code + 1
Encoder_bits_NextCodePlusOne(e) ==
    trailing_zeros(next_power_of_two(Len(e.entries) + T_ENTRIES + 1), 32)

\* width of the code the encoder writes next
Encoder_bits(e) ==
    trailing_zeros(next_power_of_two(Len(e.entries) + T_ENTRIES), 32)

Encoder_write(e, index, w) ==
    WriteBits_write_bits(w, u32_to_le_bytes(index), 0, Encoder_bits(e))

\* encode: returns the encoder, the writer and the code written (if any)
Encoder_encode(e, inp, w) ==
    IF e.prefix = <<>>
    THEN [e |-> [e EXCEPT !.prefix = <<inp>>], w |-> w, code |-> <<>>]
    ELSE LET Found(prefix, entry, index) ==
                 IF index = <<>>
                 THEN [e |-> [Encoder_insert(e, entry) EXCEPT !.prefix = <<inp>>],
                       w |-> Encoder_write(e, prefix, w),
                       code |-> <<[index |-> prefix, bits |-> Encoder_bits(e)]>>]
                 ELSE [e |-> [e EXCEPT !.prefix = index], w |-> w, code |-> <<>>]
         IN  Found(e.prefix[1],
                   [prefix |-> e.prefix[1], element |-> inp],
                   Encoder_lookup(e, [prefix |-> e.prefix[1], element |-> inp]))

Encoder_finish(e, w) ==
    IF e.prefix = <<>>
    THEN [w |-> w, code |-> <<>>]
    ELSE [w |-> Encoder_write(e, e.prefix[1], w),
          code |-> <<[index |-> e.prefix[1], bits |-> Encoder_bits(e)]>>]

(***************************************************************************)
(* lzw.rs: Decoder<u8>                                                     *)
(*   Output::Element(e)       is [tag |-> "Element", element |-> e, ...]   *)
(*   Output::Range(start,end) is [tag |-> "Range", start |-> .., end |-> ..]*)
(***************************************************************************)
OutElement(x) == [tag |-> "Element", element |-> x, start |-> 0, end |-> 0]

OutRange(a, b) == [tag |-> "Range", element |-> 0, start |-> a, end |-> b]

Decoder_new ==
    [scratch |-> <<>>, entries |-> <<>>, output |-> OutRange(0, 0), last |-> <<>>]

\* a decoder that sizes its codes from the dictionary alone
Decoder_bits_NoLast(d) ==
    trailing_zeros(next_power_of_two(Len(d.entries) + T_ENTRIES), 32)

\* width of the code the decoder reads next
Decoder_bits(d) ==
    trailing_zeros(
        next_power_of_two(Len(d.entries) + T_ENTRIES + (IF d.last # <<>> THEN 1 ELSE 0)),
        32)

\* read_index: the count returned by read_bits is dropped, the index is
\* whatever the zero-initialised array holds afterwards
Decoder_read_index(d, r, src) ==
    LET Read(bits, rd) ==
            [r |-> rd.r, index |-> u32_from_le_bytes(rd.dst),
             bits |-> bits, bits_read |-> rd.bits_read]
    IN  Read(Decoder_bits(d), ReadBits_read_bits(r, src, <<0, 0, 0, 0>>, 0, Decoder_bits(d)))

\* a push that stores the previous output without the element after it
Decoder_push_LastOnly(d, element) ==
    IF d.last = <<>> THEN d
    ELSE LET Pushed(new_start, scratch1) ==
                 [d EXCEPT !.scratch = scratch1,
                           !.entries = Append(d.entries, <<new_start, Len(scratch1)>>)]
         IN  Pushed(Len(d.scratch),
                    d.scratch
                    \o (IF d.last[1].tag = "Element" THEN <<d.last[1].element>>
                        ELSE SubSeq(d.scratch, d.last[1].start + 1, d.last[1].end)))

\* the dictionary entry appended for the previous output followed by element
Decoder_push(d, element) ==
    IF d.last = <<>> THEN d
    ELSE LET Pushed(new_start, scratch1) ==
                 [d EXCEPT !.scratch = scratch1,
                           !.entries = Append(d.entries, <<new_start, Len(scratch1)>>)]
         IN  Pushed(Len(d.scratch),
                    d.scratch
                    \o (IF d.last[1].tag = "Element" THEN <<d.last[1].element>>
                        ELSE SubSeq(d.scratch, d.last[1].start + 1, d.last[1].end))
                    \o <<element>>)

Decoder_decode_next_range(d, r, src) ==
    LET Rec(ri, err) ==
            [index |-> ri.index, bits |-> ri.bits, bits_read |-> ri.bits_read,
             entries |-> Len(d.entries), had_last |-> d.last # <<>>, err |-> err]
        Ok(ri, d1, out) ==
            [d |-> [d1 EXCEPT !.last = <<out>>, !.output = out],
             r |-> ri.r, err |-> "none", read |-> Rec(ri, "none")]
        \* the entry just appended becomes the output
        OkLast(ri, d1) ==
            Ok(ri, d1, OutRange(d1.entries[Len(d1.entries)][1],
                                d1.entries[Len(d1.entries)][2]))
        Index(ri) ==
            IF ri.index < T_ENTRIES
            THEN Ok(ri, Decoder_push(d, ri.index), OutElement(ri.index))
            ELSE IF ri.index - T_ENTRIES < Len(d.entries)
            THEN LET Entry(se) ==
                         Ok(ri, Decoder_push(d, d.scratch[se[1] + 1]), OutRange(se[1], se[2]))
                 IN  Entry(d.entries[ri.index - T_ENTRIES + 1])
            ELSE IF d.last = <<>>
            THEN [d |-> d, r |-> ri.r, err |-> "InvalidIndex",
                  read |-> Rec(ri, "InvalidIndex")]
            ELSE OkLast(ri, Decoder_push(d, IF d.last[1].tag = "Element"
                                            THEN d.last[1].element
                                            ELSE d.scratch[d.last[1].start + 1]))
    IN  Index(Decoder_read_index(d, r, src))

\* decode_next: serve from the pending output, otherwise read codes until
\* one yields output
RECURSIVE Decoder_decode_next(_, _, _, _)
Decoder_decode_next(d, r, src, reads) ==
    IF d.output.tag = "Element"
    THEN [d |-> [d EXCEPT !.output = OutRange(0, 0)], r |-> r, err |-> "none",
          element |-> d.output.element, reads |-> reads]
    ELSE IF d.output.start < d.output.end
    THEN [d |-> [d EXCEPT !.output = OutRange(d.output.start + 1, d.output.end)],
          r |-> r, err |-> "none",
          element |-> d.scratch[d.output.start + 1], reads |-> reads]
    ELSE LET Ranged(n) ==
                 IF n.err # "none"
                 THEN [d |-> n.d, r |-> n.r, err |-> n.err, element |-> 0,
                       reads |-> Append(reads, n.read)]
                 ELSE Decoder_decode_next(n.d, n.r, src, Append(reads, n.read))
         IN  Ranged(Decoder_decode_next_range(d, r, src))

\* finish: panics unless the pending output is an empty range
Decoder_finish(d) ==
    IF d.output.tag = "Range" /\ d.output.start = d.output.end THEN "ok" ELSE "panic"

(***************************************************************************)
(* z_curve.rs: u32 values as bit vectors of 32 bits.                       *)
(***************************************************************************)
U32Bits == 32

\* 0x55555555 (k = 1), 0x33333333 (2), 0x0F0F0F0F (4), 0x00FF00FF (8),
\* 0x0000FFFF (16): runs of k ones alternating with runs of k zeros
U32RunMask(k) == [i \in 1..U32Bits |-> IF ((i - 1) \div k) % 2 = 0 THEN 1 ELSE 0]

\* 0xAAAAAAAA
U32OddMask == [i \in 1..U32Bits |-> IF (i - 1) % 2 = 1 THEN 1 ELSE 0]

U32And(a, b) == [i \in 1..U32Bits |-> a[i] * b[i]]

U32Or(a, b) == [i \in 1..U32Bits |-> Max2(a[i], b[i])]

U32Shr(v, n) == [i \in 1..U32Bits |-> IF i + n <= U32Bits THEN v[i + n] ELSE 0]

\* bits = (bits | (bits >> k)) & mask
U32Compact(bits, k, mask) == U32And(U32Or(bits, U32Shr(bits, k)), mask)

\* the four compaction steps of lines 7-10 and 14-17
U32Squash(bits) ==
    U32Compact(
        U32Compact(
            U32Compact(
                U32Compact(bits, 1, U32RunMask(2)),
                2, U32RunMask(4)),
            4, U32RunMask(8)),
        8, U32RunMask(16))

\* a split that hands back y where x belongs
even_odd_split_squash_Swapped(index) ==
    << ValOf(SubSeq(U32Squash(U32Shr(U32And(BitsOf(index, U32Bits), U32OddMask), 1)), 1, 16)),
       ValOf(SubSeq(U32Squash(U32And(BitsOf(index, U32Bits), U32RunMask(1))), 1, 16)) >>

\* even_odd_split_squash: (even bits as u16, odd bits as u16)
even_odd_split_squash(index) ==
    << ValOf(SubSeq(U32Squash(U32And(BitsOf(index, U32Bits), U32RunMask(1))), 1, 16)),
       ValOf(SubSeq(U32Squash(U32Shr(U32And(BitsOf(index, U32Bits), U32OddMask), 1)), 1, 16)) >>

BoundZCurve_new(width, height) ==
    [width |-> width, height |-> height, next_index |-> 0]

\* (v + 1).next_power_of_two() on u16
u16_succ_next_power_of_two(v) == next_power_of_two((v + 1) % 65536)

\* Iterator::next: the iterator afterwards and <<>> (None) or <<(x, y)>>
RECURSIVE BoundZCurve_next(_)
BoundZCurve_next(z) ==
    LET Skip(bound, x, shift) ==
            \* until_next = msb - (index & (msb - 1)), msb = 1 << (tz * 2 + shift)
            IF x > u16_succ_next_power_of_two(bound) \/ bound = 0
            THEN [z |-> z, item |-> <<>>]
            ELSE LET Msb(msb) ==
                         BoundZCurve_next(
                             [z EXCEPT !.next_index =
                                 z.next_index + (msb - (z.next_index % msb))])
                 IN  Msb(2 ^ (trailing_zeros(x, 16) * 2 + shift))
        At(xy) ==
            IF xy[1] >= z.width /\ xy[2] >= z.height
            THEN [z |-> z, item |-> <<>>]
            ELSE IF xy[1] >= z.width THEN Skip(z.width, xy[1], 1)
            ELSE IF xy[2] >= z.height THEN Skip(z.height, xy[2], 2)
            ELSE [z |-> [z EXCEPT !.next_index = z.next_index + 1], item |-> <<xy>>]
    IN  At(even_odd_split_squash(z.next_index))

(***************************************************************************)
(* bc1.rs: Block { color0, color1, texels } and Block::decode.             *)
(* Colours are kept as exact fractions: an Rgb565 endpoint is the triple   *)
(* of its channel numerators (r/31, g/63, b/31) and a palette entry is the *)
(* triple of numerators over six times those denominators.                 *)
(***************************************************************************)
\* Rgb565::r, g, b
Rgb565_channels(bits) == << bits \div 2048, (bits \div 32) % 64, bits % 32 >>

\* c0 * w0 + c1 * w1 per channel, w0 + w1 = 6
Rgb_mix(c0, w0, c1, w1) == [k \in 1..3 |-> c0[k] * w0 + c1[k] * w1]

\* [color0, lerp(color0, color1, 1/3), lerp(color0, color1, 2/3), color1]
Palette4(c0, c1) ==
    << Rgb_mix(c0, 6, c1, 0), Rgb_mix(c0, 4, c1, 2), Rgb_mix(c0, 2, c1, 4), Rgb_mix(c0, 0, c1, 6) >>

\* [color0, lerp(color0, color1, 1/2), color1, BLACK]
Palette3(c0, c1) ==
    << Rgb_mix(c0, 6, c1, 0), Rgb_mix(c0, 3, c1, 3), Rgb_mix(c0, 0, c1, 6), <<0, 0, 0>> >>

\* the palette Block::decode builds
Block_palette(block) ==
    IF block.color0 < block.color1
    THEN Palette4(Rgb565_channels(block.color0), Rgb565_channels(block.color1))
    ELSE Palette3(Rgb565_channels(block.color0), Rgb565_channels(block.color1))

\* (texels[i] >> 2 * j) & 0b11, i and j counted from 0
Block_texel_index(block, i, j) == (block.texels[i + 1] \div (4 ^ j)) % 4

\* Block::decode: colors[i][j]
Block_decode(block) ==
    LET With(palette) ==
            [i \in 0..3 |-> [j \in 0..3 |-> palette[Block_texel_index(block, i, j) + 1]]]
    IN  With(Block_palette(block))

(***************************************************************************)
(* bc1.rs: Block::encode.  An Rgb32F given to the encoder is the triple of *)
(* its channels counted in quarters, so that channel * 31.0 and            *)
(* channel * 63.0 are exact in f32.  The endpoint search that encode runs  *)
(* on a tile with more than one colour (encode_optimize, block_errors_3/4, *)
(* block_encoding_3/4) is not computed: its block is an argument, of which *)
(* only the shape the code guarantees is known (equal endpoints come with  *)
(* zero texels).                                                           *)
(***************************************************************************)
\* Region3::new over the sixteen colours: per-channel minimum and maximum
Region3_new(colors) ==
    LET Channel(k) == {colors[i][j][k] : i \in 0..3, j \in 0..3}
        Least(S) == CHOOSE v \in S : \A u \in S : v <= u
        Greatest(S) == CHOOSE v \in S : \A u \in S : v >= u
    IN  [min |-> [k \in 1..3 |-> Least(Channel(k))],
         max |-> [k \in 1..3 |-> Greatest(Channel(k))]]

Region3_is_singular(region) == region.min = region.max

\* (c * 31.0).clamp(0.0, 31.0) as u16, and 63 for green; c in quarters
Rgb565_from_f32(rgb) ==
    Max2(0, Min2(31, (rgb[1] * 31) \div 4)) * 2048
    + Max2(0, Min2(63, (rgb[2] * 63) \div 4)) * 32
    + Max2(0, Min2(31, (rgb[3] * 31) \div 4))

\* an encoder that leaves the second endpoint black
Block_encode_BlackSecond(colors, fitted) ==
    IF Region3_is_singular(Region3_new(colors))
    THEN [color0 |-> Rgb565_from_f32(colors[0][0]),
          color1 |-> 0,
          texels |-> <<0, 0, 0, 0>>]
    ELSE fitted

\* Block::encode; fitted is the block the endpoint search ends with
Block_encode(colors, fitted) ==
    IF Region3_is_singular(Region3_new(colors))
    THEN [color0 |-> Rgb565_from_f32(colors[0][0]),
          color1 |-> Rgb565_from_f32(colors[0][0]),
          texels |-> <<0, 0, 0, 0>>]
    ELSE fitted

(***************************************************************************)
(* bc1.rs: Block::encode on a tile with more than one colour, with         *)
(* optimize = 0.  The outcome of the floating-point comparisons is an      *)
(* argument `search`: mode is "3" when errors_weight_3 < errors_weight_4   *)
(* and "4" otherwise, diagonal is the number of the region diagonal that   *)
(* encode_optimize kept for that mode, and nearest gives, for every colour *)
(* of the tile, the palette index block_encoding_3 / block_encoding_4      *)
(* finds closest.                                                          *)
(***************************************************************************)
\* Region3::diagonals
Region3_diagonals(region) ==
    LET lo == region.min
        hi == region.max
    IN  << <<lo, hi>>,
           << <<lo[1], lo[2], hi[3]>>, <<hi[1], hi[2], lo[3]>> >>,
           << <<lo[1], hi[2], lo[3]>>, <<hi[1], lo[2], hi[3]>> >>,
           << <<hi[1], lo[2], lo[3]>>, <<lo[1], hi[2], hi[3]>> >> >>

\* a packing that stores column i in byte i
block_encoding_pack_RowMajorBits(colors, nearest) ==
    [i \in 1..4 |->
        nearest[colors[0][i - 1]] + 4 * nearest[colors[1][i - 1]]
        + 16 * nearest[colors[2][i - 1]] + 64 * nearest[colors[3][i - 1]]]

\* the packing loop of block_encoding_3 and block_encoding_4:
\* texels[i] |= index << (j * 2)
block_encoding_pack(colors, nearest) ==
    [i \in 1..4 |->
        nearest[colors[i - 1][0]] + 4 * nearest[colors[i - 1][1]]
        + 16 * nearest[colors[i - 1][2]] + 64 * nearest[colors[i - 1][3]]]

\* block_encoding_3: indices 0 (color0), 1 (color12), 2 (color1)
block_encoding_3(colors, nearest) == block_encoding_pack(colors, nearest)

\* block_encoding_4: indices 0 (color0), 1 (color13), 2 (color23), 3 (color1)
block_encoding_4(colors, nearest) == block_encoding_pack(colors, nearest)

\* the endpoints of the 3-colour branch keep their order
Block_encode_order_Unordered(mode, q0, q1) == <<q0, q1>>

\* the swaps of Block::encode: color0 above color1 in the 3-colour branch,
\* color0 below color1 in the 4-colour branch
Block_encode_order(mode, q0, q1) ==
    IF mode = "3"
    THEN IF q0 < q1 THEN <<q1, q0>> ELSE <<q0, q1>>
    ELSE IF q0 > q1 THEN <<q1, q0>> ELSE <<q0, q1>>

\* Block::encode after the singular test (bc1.rs lines 199-252)
Block_encode_fitted(colors, search) ==
    LET ep == Region3_diagonals(Region3_new(colors))[search.diagonal]
        q0 == Rgb565_from_f32(ep[1])
        q1 == Rgb565_from_f32(ep[2])
        best == Block_encode_order(search.mode, q0, q1)
    IN  IF q0 = q1
        THEN [color0 |-> q0, color1 |-> q0, texels |-> <<0, 0, 0, 0>>]
        ELSE [color0 |-> best[1], color1 |-> best[2],
              texels |-> IF search.mode = "3"
                         THEN block_encoding_3(colors, search.nearest)
                         ELSE block_encoding_4(colors, search.nearest)]

(***************************************************************************)
(* math.rs / bc1.rs: the byte form of an endpoint and of a block.          *)
(***************************************************************************)
\* Rgb565::bytes: self.0.to_le_bytes()
Rgb565_bytes(bits) == <<bits % 256, bits \div 256>>

\* an endpoint read with its bytes in big-endian order
Rgb565_from_bytes_BigEndian(bytes) == bytes[1] * 256 + bytes[2]

\* Rgb565::from_bytes: Rgb565(u16::from_le_bytes(bytes))
Rgb565_from_bytes(bytes) == bytes[1] + bytes[2] * 256

\* Block::bytes
Block_bytes(block) ==
    <<Rgb565_bytes(block.color0)[1], Rgb565_bytes(block.color0)[2],
      Rgb565_bytes(block.color1)[1], Rgb565_bytes(block.color1)[2],
      block.texels[1], block.texels[2], block.texels[3], block.texels[4]>>

\* Block::from_bytes
Block_from_bytes(bytes) ==
    [color0 |-> Rgb565_from_bytes(<<bytes[1], bytes[2]>>),
     color1 |-> Rgb565_from_bytes(<<bytes[3], bytes[4]>>),
     texels |-> <<bytes[5], bytes[6], bytes[7], bytes[8]>>]

(***************************************************************************)
(* jackal.rs: Config, Extent, JackalHeader and the index entry JackalBlock.*)
(*   Extent is [dimensions |-> "D1" | "D2" | "D3" | "D1Array" | "D2Array", *)
(*   width, height, depth, layers]; a field the variant lacks is 1.        *)
(*   Results carry err: "none", the DecodeError variant name, "Io" for     *)
(*   DecompressError::Io, or "panic" for a failed assert.                  *)
(***************************************************************************)
Format_COUNT == 10

Footprint_COUNT == 25

Dimensions_COUNT == 5

MipLevels_COUNT == 30

JackalHeader_BYTES_SIZE == 20

JackalBlock_BYTES_SIZE == 8

\* 0x304C4B4A to_le_bytes, "JKL0"
MAGIC_VER_0 == <<74, 75, 76, 48>>

FormatNames == <<"BC1", "BC3", "BC4", "BC5", "BC6", "BC7">>

DimensionsNames == <<"D1", "D2", "D3", "D1Array", "D2Array">>

Format_encode(format) == CHOOSE id \in 0..5 : FormatNames[id + 1] = format

\* ids 6..9 are reserved entries
Format_decode(id) ==
    IF id < 6 THEN [err |-> "none", format |-> FormatNames[id + 1]]
    ELSE [err |-> "UnsupportedFormat", format |-> "BC1"]

Dimensions_encode(dimensions) ==
    CHOOSE id \in 0..4 : DimensionsNames[id + 1] = dimensions

Dimensions_decode(id) == DimensionsNames[id + 1]

\* footprint_from_size returns one edge for every size; the model scales
\* that edge (1024 blocks in the code) down to FootprintEdge
Footprint_from_size(width, height) == <<FootprintEdge, FootprintEdge>>

Footprint_encode(footprint) == 0

Footprint_decode(id) == <<FootprintEdge, FootprintEdge>>

Config_encode(c) ==
    ((c.levels * Dimensions_COUNT + Dimensions_encode(c.dimensions)) * Footprint_COUNT
        + Footprint_encode(c.footprint)) * Format_COUNT
    + Format_encode(c.format)

\* Format::decode fails first; MipLevels::decode asserts id < COUNT
Config_decode(config) ==
    LET Levels(format, levels) ==
            IF format.err # "none"
            THEN [err |-> format.err, dimensions |-> "D1", levels |-> 0,
                  format |-> "BC1", footprint |-> <<0, 0>>]
            ELSE [err |-> IF levels < MipLevels_COUNT THEN "none" ELSE "panic",
                  dimensions |->
                      Dimensions_decode(((config \div Format_COUNT) \div Footprint_COUNT)
                                        % Dimensions_COUNT),
                  levels |-> levels,
                  format |-> format.format,
                  footprint |->
                      Footprint_decode((config \div Format_COUNT) % Footprint_COUNT)]
    IN  Levels(Format_decode(config % Format_COUNT),
               ((config \div Format_COUNT) \div Footprint_COUNT) \div Dimensions_COUNT)

Extent_new(dimensions, width, height, depth, layers) ==
    [dimensions |-> dimensions, width |-> width, height |-> height,
     depth |-> depth, layers |-> layers]

Extent_raw_size(e) ==
    IF e.dimensions = "D1" THEN <<e.width, 1, 1>>
    ELSE IF e.dimensions = "D2" THEN <<e.width, e.height, 1>>
    ELSE IF e.dimensions = "D3" THEN <<e.width, e.height, e.depth>>
    ELSE IF e.dimensions = "D1Array" THEN <<e.width, e.layers, 1>>
    ELSE <<e.width, e.height, e.layers>>

\* a from_raw_size that takes any triple for D2
ExtentFromRawSize_AnyD2(value, dimensions, invalid) ==
    LET Bad == [err |-> invalid, extent |-> Extent_new("D1", 0, 1, 1, 1)]
        Ok(e) == [err |-> "none", extent |-> e]
    IN  IF dimensions = "D1"
        THEN IF value[2] # 1 \/ value[3] # 1 THEN Bad
             ELSE Ok(Extent_new("D1", value[1], 1, 1, 1))
        ELSE IF dimensions = "D2"
        THEN Ok(Extent_new("D2", value[1], value[2], 1, 1))
        ELSE IF dimensions = "D3"
        THEN Ok(Extent_new("D3", value[1], value[2], value[3], 1))
        ELSE IF dimensions = "D1Array"
        THEN IF value[3] # 1 THEN Bad
             ELSE Ok(Extent_new("D1Array", value[1], 1, 1, value[2]))
        ELSE Ok(Extent_new("D2Array", value[1], value[2], 1, value[3]))

\* Extent::from_raw_size; invalid is the error of the calling generation
ExtentFromRawSize(value, dimensions, invalid) ==
    LET Bad == [err |-> invalid, extent |-> Extent_new("D1", 0, 1, 1, 1)]
        Ok(e) == [err |-> "none", extent |-> e]
    IN  IF dimensions = "D1"
        THEN IF value[2] # 1 \/ value[3] # 1 THEN Bad
             ELSE Ok(Extent_new("D1", value[1], 1, 1, 1))
        ELSE IF dimensions = "D2"
        THEN IF value[3] # 1 THEN Bad
             ELSE Ok(Extent_new("D2", value[1], value[2], 1, 1))
        ELSE IF dimensions = "D3"
        THEN Ok(Extent_new("D3", value[1], value[2], value[3], 1))
        ELSE IF dimensions = "D1Array"
        THEN IF value[3] # 1 THEN Bad
             ELSE Ok(Extent_new("D1Array", value[1], 1, 1, value[2]))
        ELSE Ok(Extent_new("D2Array", value[1], value[2], 1, value[3]))

Extent_from_raw_size(value, dimensions) ==
    ExtentFromRawSize(value, dimensions, "InvalidExtent")

\* header: [levels, format, footprint, extent]
JackalHeader_write_to(h) ==
    MAGIC_VER_0
    \o u32_to_le_bytes(Config_encode([dimensions |-> h.extent.dimensions,
                                      levels |-> h.levels, format |-> h.format,
                                      footprint |-> h.footprint]))
    \o u32_to_le_bytes(Extent_raw_size(h.extent)[1])
    \o u32_to_le_bytes(Extent_raw_size(h.extent)[2])
    \o u32_to_le_bytes(Extent_raw_size(h.extent)[3])

\* read_from: one read_exact of BYTES_SIZE bytes, then the checks in the
\* order of the code. `read` is the number of bytes asked of the reader.
JackalHeader_read_from(src, pos) ==
    LET Fail(err) == [err |-> err, read |-> JackalHeader_BYTES_SIZE, header |-> <<>>]
        Sized(config, extent) ==
            IF extent.err # "none" THEN Fail(extent.err)
            ELSE [err |-> "none", read |-> JackalHeader_BYTES_SIZE,
                  header |-> <<[levels |-> config.levels, format |-> config.format,
                                footprint |-> config.footprint,
                                extent |-> extent.extent]>>]
        Configured(bytes, config) ==
            IF config.err # "none" THEN Fail(config.err)
            ELSE Sized(config,
                       Extent_from_raw_size(<<u32_from_le_bytes(SubSeq(bytes, 9, 12)),
                                              u32_from_le_bytes(SubSeq(bytes, 13, 16)),
                                              u32_from_le_bytes(SubSeq(bytes, 17, 20))>>,
                                            config.dimensions))
        Filled(bytes) ==
            IF Len(bytes) < JackalHeader_BYTES_SIZE THEN Fail("Io")
            ELSE IF SubSeq(bytes, 1, 4) # MAGIC_VER_0 THEN Fail("InvalidHeader")
            ELSE Configured(bytes, Config_decode(u32_from_le_bytes(SubSeq(bytes, 5, 8))))
    IN  Filled(SliceRead(src, pos, JackalHeader_BYTES_SIZE))

\* (raw_size + footprint - 1) / footprint per axis, layers untouched
JackalHeader_jackal_blocks_extent(h) ==
    << (Extent_raw_size(h.extent)[1] + h.footprint[1] - 1) \div h.footprint[1],
       (Extent_raw_size(h.extent)[2] + h.footprint[2] - 1) \div h.footprint[2],
       Extent_raw_size(h.extent)[3] >>

JackalHeader_jackal_blocks_count(h) ==
    JackalHeader_jackal_blocks_extent(h)[1] * JackalHeader_jackal_blocks_extent(h)[2]
    * JackalHeader_jackal_blocks_extent(h)[3]

JackalHeader_blocks_count(h) ==
    Extent_raw_size(h.extent)[1] * Extent_raw_size(h.extent)[2]
    * Extent_raw_size(h.extent)[3]

\* u64::to_le_bytes of a position that fits 31 bits
u64_to_le_bytes(v) == u32_to_le_bytes(v) \o <<0, 0, 0, 0>>

\* u64::from_le_bytes; an offset of 2^31 or more lies past the end of every
\* input of the model and is kept as the largest position
u64_from_le_bytes(b) ==
    IF b[4] < 128 /\ SubSeq(b, 5, 8) = <<0, 0, 0, 0>>
    THEN u32_from_le_bytes(SubSeq(b, 1, 4)) ELSE 2147483647

JackalBlock_write_to(jb) == u64_to_le_bytes(jb.offset)

JackalBlock_read_from(src, pos) ==
    LET Filled(bytes) ==
            IF Len(bytes) < JackalBlock_BYTES_SIZE
            THEN [err |-> "Io", jackal_block |-> [offset |-> 0]]
            ELSE [err |-> "none", jackal_block |-> [offset |-> u64_from_le_bytes(bytes)]]
    IN  Filled(SliceRead(src, pos, JackalBlock_BYTES_SIZE))

(***************************************************************************)
(* jackal/header.rs: the header of the "JKLI" generation, as read.         *)
(***************************************************************************)
\* 0x494C4B4A to_le_bytes, "JKLI"
MAGIC_NUMBER == <<74, 75, 76, 73>>

u16_from_le_bytes(b) == b[1] + 256 * b[2]

hdr_Extent_from_raw_size(value, dimensions) ==
    ExtentFromRawSize(value, dimensions, "InvalidHeader")

\* read_from: one read_exact of 24 bytes, then magic, levels, format,
\* super-block size, dimensions and extent in that order
hdr_JackalHeader_read_from(src, pos) ==
    LET Fail(err) == [err |-> err, read |-> 24, header |-> <<>>]
        Sized(bytes, extent) ==
            IF extent.err # "none" THEN Fail(extent.err)
            ELSE [err |-> "none", read |-> 24,
                  header |-> <<[levels |-> u16_from_le_bytes(SubSeq(bytes, 5, 6)),
                                format |-> FormatNames[u16_from_le_bytes(SubSeq(bytes, 7, 8)) + 1],
                                super_block_size |-> <<2 ^ bytes[9], 2 ^ bytes[10]>>,
                                extent |-> extent.extent]>>]
        Filled(bytes) ==
            IF Len(bytes) < 24 THEN Fail("Io")
            ELSE IF SubSeq(bytes, 1, 4) # MAGIC_NUMBER THEN Fail("InvalidMagic")
            ELSE IF u16_from_le_bytes(SubSeq(bytes, 5, 6)) = 0 THEN Fail("InvalidHeader")
            ELSE IF u16_from_le_bytes(SubSeq(bytes, 7, 8)) > 5 THEN Fail("InvalidHeader")
            ELSE IF bytes[9] >= 16 \/ bytes[10] >= 16 THEN Fail("InvalidHeader")
            ELSE IF u16_from_le_bytes(SubSeq(bytes, 11, 12)) > 4 THEN Fail("InvalidHeader")
            ELSE Sized(bytes,
                       hdr_Extent_from_raw_size(
                           <<u32_from_le_bytes(SubSeq(bytes, 13, 16)),
                             u32_from_le_bytes(SubSeq(bytes, 17, 20)),
                             u32_from_le_bytes(SubSeq(bytes, 21, 24))>>,
                           DimensionsNames[u16_from_le_bytes(SubSeq(bytes, 11, 12)) + 1]))
    IN  Filled(SliceRead(src, pos, 24))

\* JackalHeader::BYTES_SIZE of jackal/header.rs, the size write_to emits
hdr_JackalHeader_BYTES_SIZE == 26

\* super_block_from_extent
hdr_super_block_from_extent(extent) ==
    IF extent < 64 THEN 16
    ELSE IF extent < 128 THEN 64
    ELSE IF extent < 256 THEN 128
    ELSE IF extent < 512 THEN 256
    ELSE 512

\* write_to of jackal/header.rs: the fields fill bytes 0..24 of a zeroed
\* array of BYTES_SIZE bytes, which is written whole
hdr_JackalHeader_write_to(h) ==
    LET IdOf(names, name) == (CHOOSE i \in 1..Len(names) : names[i] = name) - 1
        Fields ==
            MAGIC_NUMBER
            \o <<h.levels % 256, h.levels \div 256>>
            \o <<IdOf(FormatNames, h.format), 0>>
            \o <<trailing_zeros(h.super_block_size[1], 32),
                 trailing_zeros(h.super_block_size[2], 32)>>
            \o <<IdOf(DimensionsNames, h.extent.dimensions), 0>>
            \o u32_to_le_bytes(Extent_raw_size(h.extent)[1])
            \o u32_to_le_bytes(Extent_raw_size(h.extent)[2])
            \o u32_to_le_bytes(Extent_raw_size(h.extent)[3])
    IN  Fields \o Zeros(hdr_JackalHeader_BYTES_SIZE - Len(Fields))

\* jackal_blocks_count of jackal/header.rs
hdr_JackalHeader_jackal_blocks_count(h) ==
    ((Extent_raw_size(h.extent)[1] + h.super_block_size[1] - 1) \div h.super_block_size[1])
    * ((Extent_raw_size(h.extent)[2] + h.super_block_size[2] - 1) \div h.super_block_size[2])
    * Extent_raw_size(h.extent)[3]

\* compress_texture of jackal/mod.rs up to its payloads: the header at 0,
\* index entry k at BYTES_SIZE + 8k, payload k (sizes[k + 1] bytes, their
\* content left out) after the index. Returns the bytes and, for every
\* entry, the position it was written at and the offset it holds.
hdr_compress_texture(extent, sizes) ==
    LET Header == [levels |-> 1, format |-> "BC1",
                   super_block_size |->
                       <<hdr_super_block_from_extent(Extent_raw_size(extent)[1]),
                         hdr_super_block_from_extent(Extent_raw_size(extent)[2])>>,
                   extent |-> extent]
        Count == hdr_JackalHeader_jackal_blocks_count(Header)
        Start == hdr_JackalHeader_BYTES_SIZE
        End == Start + JackalBlock_BYTES_SIZE * Count
        Before(k) == SumTo(sizes, k)
        Entries == [k \in 1..Count |->
                       [pos |-> Start + JackalBlock_BYTES_SIZE * (k - 1),
                        offset |-> End + Before(k - 1)]]
        HeaderBytes == hdr_JackalHeader_write_to(Header)
        EntryByte(i) ==
            JackalBlock_write_to([offset |-> Entries[(i \div JackalBlock_BYTES_SIZE) + 1].offset])
                [(i % JackalBlock_BYTES_SIZE) + 1]
    IN  [out |-> [i \in 1..(End + Before(Count)) |->
                     IF i <= Start THEN HeaderBytes[i]
                     ELSE IF i <= End THEN EntryByte(i - Start - 1)
                     ELSE 0],
         header_len |-> Len(HeaderBytes),
         entries |-> Entries]

(***************************************************************************)
(* jackal.rs: the predictor and the per-aspect coding of BC1 blocks.       *)
(*   nn.rs builds a layer of weights drawn from [-1, 1] / (IN + 1) and     *)
(*   Model::forward without hidden layers is the weighted sum of its       *)
(*   inputs plus a bias; Model::backward only accumulates gradients, which *)
(*   nothing in jackal.rs applies.  A model is [weights |-> 8 integers,    *)
(*   bias |-> integer], both counted in ninths (IN = 8), and the kernel    *)
(*   values k / 31 (k / 63 for green) are kept as their numerators k, so   *)
(*   the sum below is output * scale * 9 in exact arithmetic.              *)
(***************************************************************************)
ASPECTS == 7

Model_forward(m, kernel, scale) ==
    m.weights[1] * kernel[1] + m.weights[2] * kernel[2]
    + m.weights[3] * kernel[3] + m.weights[4] * kernel[4]
    + m.weights[5] * kernel[5] + m.weights[6] * kernel[6]
    + m.weights[7] * kernel[7] + m.weights[8] * kernel[8]
    + m.bias * scale

\* (signals.output() * scale).rem_euclid(scale) as u8
predicted_color(signals, scale) == (signals % (9 * scale)) \div 9

\* aspects 0..5 are color0.r, color0.g, color0.b, color1.r, color1.g, color1.b
AspectScale(aspect) == IF aspect % 3 = 1 THEN 63 ELSE 31

Block_aspect_color(block, aspect) ==
    Rgb565_channels(IF aspect < 3 THEN block.color0 ELSE block.color1)[(aspect % 3) + 1]

\* Rgb565::set_r, set_g, set_b for channel 0, 1, 2
Rgb565_set(bits, channel, v) ==
    IF channel = 0 THEN (bits % 2048) + v * 2048
    ELSE IF channel = 1 THEN (bits - ((bits \div 32) % 64) * 32) + v * 32
    ELSE (bits - (bits % 32)) + v

Block_set_aspect_color(block, aspect, v) ==
    IF aspect < 3
    THEN [block EXCEPT !.color0 = Rgb565_set(block.color0, aspect % 3, v)]
    ELSE [block EXCEPT !.color1 = Rgb565_set(block.color1, aspect % 3, v)]

Block_BLACK == [color0 |-> 0, color1 |-> 0, texels |-> <<0, 0, 0, 0>>]

Block_WHITE == [color0 |-> 65535, color1 |-> 0, texels |-> <<17, 17, 17, 17>>]

\* kernel.map(|b| b.map_or(0.0, channel / scale)), as numerators
KernelColors(kernel, aspect) ==
    [i \in 1..8 |-> IF kernel[i] = <<>> THEN 0
                    ELSE Block_aspect_color(kernel[i][1], aspect)]

\* AnyBlock::compress: the symbols handed to the LZW encoder
Block_compress(block, m, kernel, aspect) ==
    IF aspect < 6
    THEN << (Block_aspect_color(block, aspect)
             - predicted_color(Model_forward(m, KernelColors(kernel, aspect),
                                             AspectScale(aspect)),
                               AspectScale(aspect)))
            % (AspectScale(aspect) + 1) >>
    ELSE block.texels

\* n successive decode_next calls, stopping at the first error
RECURSIVE Decoder_decode_n(_, _, _, _, _)
Decoder_decode_n(d, r, src, n, elements) ==
    IF n = 0 THEN [d |-> d, r |-> r, err |-> "none", elements |-> elements]
    ELSE LET Got(g) ==
                 IF g.err # "none"
                 THEN [d |-> g.d, r |-> g.r, err |-> g.err, elements |-> elements]
                 ELSE Decoder_decode_n(g.d, g.r, src, n - 1, Append(elements, g.element))
         IN  Got(Decoder_decode_next(d, r, src, <<>>))

lz78_decode_to_decompress_error(err) ==
    IF err = "InvalidIndex" THEN "InvalidData" ELSE err

\* AnyBlock::decompress: returns the block, the coder state and the error
Block_decompress(block, m, kernel, aspect, d, r, src) ==
    LET Got(g) ==
            [d |-> g.d, r |-> g.r,
             err |-> lz78_decode_to_decompress_error(g.err),
             block |->
                 IF g.err # "none" THEN block
                 ELSE IF aspect < 6
                 THEN Block_set_aspect_color(
                          block, aspect,
                          (g.elements[1]
                           + predicted_color(Model_forward(m, KernelColors(kernel, aspect),
                                                           AspectScale(aspect)),
                                             AspectScale(aspect)))
                          % (AspectScale(aspect) + 1))
                 ELSE [block EXCEPT !.texels = g.elements]]
    IN  Got(Decoder_decode_n(d, r, src, IF aspect < 6 THEN 1 ELSE 4, <<>>))

\* the eight neighbours gathered by compress_any_block_aspect; `index` is
\* the 0-based position of (x, y, z) in blocks
compress_kernel(blocks, raw_size, x, y, index) ==
    LET k0 == IF x > 0 THEN <<blocks[index]>> ELSE <<>>
        k2 == IF y > 0 THEN <<blocks[index + 1 - raw_size[1]]>> ELSE <<>>
        k4 == IF x > 0 /\ y > 0 THEN <<blocks[index - raw_size[1]]>> ELSE <<>>
    IN  << k0,
           IF x > 1 THEN <<blocks[index - 1]>> ELSE k0,
           k2,
           IF y > 1 THEN <<blocks[index + 1 - raw_size[1] * 2]>> ELSE k2,
           k4,
           IF x > 1 /\ y > 0 THEN <<blocks[index - 1 - raw_size[1]]>> ELSE k4,
           IF x > 0 /\ y > 1 THEN <<blocks[index - raw_size[1] * 2]>> ELSE k4,
           IF x > 1 /\ y > 1 THEN <<blocks[index - 1 - raw_size[1] * 2]>> ELSE k4 >>

\* the eight neighbours gathered by decompress_any_block_aspect
decompress_kernel(blocks, raw_size, x, y, index) ==
    << IF x > 0 THEN <<blocks[index]>> ELSE <<>>,
       IF x > 1 THEN <<blocks[index - 1]>> ELSE <<>>,
       IF y > 0 THEN <<blocks[index + 1 - raw_size[1]]>> ELSE <<>>,
       IF y > 1 THEN <<blocks[index + 1 - raw_size[1] * 2]>> ELSE <<>>,
       IF x > 0 /\ y > 0 THEN <<blocks[index - raw_size[1]]>> ELSE <<>>,
       IF x > 1 /\ y > 0 THEN <<blocks[index - 1 - raw_size[1]]>> ELSE <<>>,
       IF x > 0 /\ y > 1 THEN <<blocks[index - raw_size[1] * 2]>> ELSE <<>>,
       IF x > 1 /\ y > 1 THEN <<blocks[index - 1 - raw_size[1] * 2]>> ELSE <<>> >>

(***************************************************************************)
(* jackal.rs: super-block coding and the container.                        *)
(*   A region is [x_start, x_end, y_start, y_end, z]; blocks is the whole  *)
(*   grid in x + y * width + z * width * height order, 1-based here.       *)
(***************************************************************************)
\* a region that always spans the whole footprint
SuperBlockRegion_Unclipped(raw_size, footprint, super_pos) ==
    [x_start |-> super_pos[1] * footprint[1],
     x_end |-> super_pos[1] * footprint[1] + footprint[1],
     y_start |-> super_pos[2] * footprint[2],
     y_end |-> super_pos[2] * footprint[2] + footprint[2],
     z |-> super_pos[3]]

\* the clipped region of the super-block at super_pos
SuperBlockRegion(raw_size, footprint, super_pos) ==
    [x_start |-> super_pos[1] * footprint[1],
     x_end |-> IF raw_size[1] - super_pos[1] * footprint[1] < footprint[1]
               THEN raw_size[1] ELSE super_pos[1] * footprint[1] + footprint[1],
     y_start |-> super_pos[2] * footprint[2],
     y_end |-> IF raw_size[2] - super_pos[2] * footprint[2] < footprint[2]
               THEN raw_size[2] ELSE super_pos[2] * footprint[2] + footprint[2],
     z |-> super_pos[3]]

\* the i-th super-block position of the z, y, x loops, i counted from 0
SuperPos(jackal_blocks_extent, i) ==
    << i % jackal_blocks_extent[1],
       (i \div jackal_blocks_extent[1]) % jackal_blocks_extent[2],
       i \div (jackal_blocks_extent[1] * jackal_blocks_extent[2]) >>

\* encoder.encode(symbol, write)? of each symbol in turn; ew is
\* [e |-> Encoder, w |-> WriteBits, err |-> io result so far]
RECURSIVE Encoder_encode_all(_, _, _)
Encoder_encode_all(ew, symbols, i) ==
    IF ew.err # "none" \/ i > Len(symbols) THEN ew
    ELSE LET Encoded(n) ==
                 Encoder_encode_all([e |-> n.e, w |-> n.w, err |-> n.w.err], symbols, i + 1)
         IN  Encoded(Encoder_encode(ew.e, symbols[i], ew.w))

\* loops that count from the corner of the grid, not of the region
aspect_loop_coord_FromOrigin(g, k) ==
    <<k % (g.x_end - g.x_start), k \div (g.x_end - g.x_start)>>

\* for y in y_start..y_end { for x in x_start..x_end: the (x, y) of iteration
\* k, counted from 0
aspect_loop_coord(g, k) ==
    <<g.x_start + (k % (g.x_end - g.x_start)),
      g.y_start + (k \div (g.x_end - g.x_start))>>

\* the y, x loops of one aspect; k counts the blocks already visited
RECURSIVE compress_any_block_aspect(_, _, _, _, _, _, _)
compress_any_block_aspect(aspect, g, blocks, raw_size, m, ew, k) ==
    IF \/ ew.err # "none"
       \/ ASPECTS <= aspect
       \/ k >= (g.x_end - g.x_start) * (g.y_end - g.y_start)
    THEN ew
    ELSE LET Visit(x, y, index) ==
                 compress_any_block_aspect(
                     aspect, g, blocks, raw_size, m,
                     Encoder_encode_all(
                         ew,
                         Block_compress(blocks[index + 1], m,
                                        compress_kernel(blocks, raw_size, x, y, index),
                                        aspect),
                         1),
                     k + 1)
             At(x, y) ==
                 Visit(x, y, x + y * raw_size[1] + g.z * raw_size[1] * raw_size[2])
         IN  At(aspect_loop_coord(g, k)[1], aspect_loop_coord(g, k)[2])

\* the symbols one aspect's y, x loops hand to the encoder, from iteration k on
RECURSIVE compress_any_block_aspect_symbols(_, _, _, _, _, _)
compress_any_block_aspect_symbols(aspect, g, blocks, raw_size, m, k) ==
    IF ASPECTS <= aspect \/ k >= (g.x_end - g.x_start) * (g.y_end - g.y_start)
    THEN <<>>
    ELSE LET Visit(x, y, index) ==
                 Block_compress(blocks[index + 1], m,
                                compress_kernel(blocks, raw_size, x, y, index), aspect)
                 \o compress_any_block_aspect_symbols(aspect, g, blocks, raw_size, m, k + 1)
             At(x, y) ==
                 Visit(x, y, x + y * raw_size[1] + g.z * raw_size[1] * raw_size[2])
         IN  At(aspect_loop_coord(g, k)[1], aspect_loop_coord(g, k)[2])

\* every symbol compress_any_block hands to its encoder, aspects 0..7 in order
compress_any_block_symbols(g, raw_size, blocks, m) ==
    LET A(aspect) == compress_any_block_aspect_symbols(aspect, g, blocks, raw_size, m, 0)
    IN  A(0) \o A(1) \o A(2) \o A(3) \o A(4) \o A(5) \o A(6) \o A(7)

\* compress_any_block: a fresh predictor, encoder and bit writer at the
\* sink position, aspects 0..7 in order, then both finishes; returns the
\* bit writer (sink bytes and position, what the sink answers next and the
\* io::Error returned, if any); `write` is the sink as [out, pos, replies]
compress_any_block(g, raw_size, blocks, m, write) ==
    LET RECURSIVE Aspects(_, _)
        \* compress_any_block_aspect::<B, aspect>(..)? for aspect, .., 7
        Aspects(ew, aspect) ==
            IF ew.err # "none" \/ aspect > 7 THEN ew
            ELSE Aspects(compress_any_block_aspect(aspect, g, blocks, raw_size, m, ew, 0),
                         aspect + 1)
        Finished(ew) ==
            IF ew.err # "none" THEN ew.w
            ELSE WriteBits_finish(Encoder_finish(ew.e, ew.w).w)
    IN  Finished(Aspects(
            [e |-> Encoder_new,
             w |-> [WriteBits_new(write.out, write.pos) EXCEPT !.replies = write.replies],
             err |-> "none"], 0))

\* the super-block loops of compress_texture: index entry, then payload; an
\* Err of compress_any_block ends the loops (`?`)
RECURSIVE compress_texture_loop(_, _, _, _, _, _, _)
compress_texture_loop(header, blocks, m, i, out, next_jackal_block_pos, next_data_pos) ==
    IF i >= JackalHeader_jackal_blocks_count(header) THEN out
    ELSE LET Written(w) ==
                 IF w.err # "none" THEN w.out
                 ELSE compress_texture_loop(header, blocks, m, i + 1, w.out,
                                            next_jackal_block_pos + JackalBlock_BYTES_SIZE,
                                            w.pos)
         IN  Written(compress_any_block(
                         SuperBlockRegion(Extent_raw_size(header.extent), header.footprint,
                                          SuperPos(JackalHeader_jackal_blocks_extent(header), i)),
                         Extent_raw_size(header.extent), blocks, m,
                         [out |-> CursorWrite(out, next_jackal_block_pos,
                                              JackalBlock_write_to([offset |-> next_data_pos])),
                          pos |-> next_data_pos, replies |-> <<>>]))

\* for z in 0..raw_size[2] { for y_start in (0..raw_size[1]).step_by(..) {
\* for x_start in (0..raw_size[0]).step_by(..): the (x_start, y_start, z) of the
\* iterations, in order, from the given loop variables on
RECURSIVE compress_texture_starts(_, _, _, _, _)
compress_texture_starts(raw_size, footprint, z, y_start, x_start) ==
    IF z >= raw_size[3] THEN <<>>
    ELSE IF y_start >= raw_size[2]
    THEN compress_texture_starts(raw_size, footprint, z + 1, 0, 0)
    ELSE IF x_start >= raw_size[1]
    THEN compress_texture_starts(raw_size, footprint, z, y_start + footprint[2], 0)
    ELSE <<<<x_start, y_start, z>>>>
         \o compress_texture_starts(raw_size, footprint, z, y_start, x_start + footprint[1])

\* the header compress_texture builds
compress_texture_header(extent) ==
    [levels |-> 1, format |-> "BC1",
     footprint |-> Footprint_from_size(Extent_raw_size(extent)[1], Extent_raw_size(extent)[2]),
     extent |-> extent]

\* a writer that reserves no room for the index table
compress_texture_NoIndexRoom(extent, blocks, m) ==
    LET With(header) ==
            compress_texture_loop(
                header, blocks, m, 0, JackalHeader_write_to(header),
                JackalHeader_BYTES_SIZE,
                JackalHeader_BYTES_SIZE)
    IN  With(compress_texture_header(extent))

\* compress_bc1_texture into an empty Vec: the bytes written
compress_texture(extent, blocks, m) ==
    LET With(header) ==
            compress_texture_loop(
                header, blocks, m, 0, JackalHeader_write_to(header),
                JackalHeader_BYTES_SIZE,
                JackalHeader_BYTES_SIZE
                + JackalBlock_BYTES_SIZE * JackalHeader_jackal_blocks_count(header))
    IN  With(compress_texture_header(extent))

\* compress_bc1_blocks: one super-block written at its index entry's offset
compress_bc1_blocks(header, super_pos, jackal_block, blocks, m, out) ==
    compress_any_block(
        SuperBlockRegion(Extent_raw_size(header.extent), header.footprint, super_pos),
        Extent_raw_size(header.extent), blocks, m,
        [out |-> out, pos |-> jackal_block.offset, replies |-> <<>>])

\* the y, x loops of one aspect; st is [blocks, d, r, err]
RECURSIVE decompress_any_block_aspect(_, _, _, _, _, _, _)
decompress_any_block_aspect(aspect, g, raw_size, m, src, st, k) ==
    IF \/ st.err # "none"
       \/ ASPECTS <= aspect
       \/ k >= (g.x_end - g.x_start) * (g.y_end - g.y_start)
    THEN st
    ELSE LET Stored(index, b) ==
                 decompress_any_block_aspect(
                     aspect, g, raw_size, m, src,
                     [blocks |-> [st.blocks EXCEPT ![index + 1] = b.block],
                      d |-> b.d, r |-> b.r, err |-> b.err],
                     k + 1)
             Visit(x, y, index) ==
                 Stored(index,
                        Block_decompress(st.blocks[index + 1], m,
                                         decompress_kernel(st.blocks, raw_size, x, y, index),
                                         aspect, st.d, st.r, src))
             At(x, y) ==
                 Visit(x, y, x + y * raw_size[1] + g.z * raw_size[1] * raw_size[2])
         IN  At(aspect_loop_coord(g, k)[1], aspect_loop_coord(g, k)[2])

\* decompress_any_block (decompress_bc1_blocks): seek to the offset, fresh
\* predictor, decoder and bit reader, aspects 0..7, decoder.finish()
decompress_any_block(header, super_pos, jackal_block, blocks, src, m) ==
    LET RECURSIVE Aspects(_, _)
        \* decompress_any_block_aspect::<B, aspect>(..)? for aspect, .., 7
        Aspects(st, aspect) ==
            IF st.err # "none" \/ aspect > 7 THEN st
            ELSE Aspects(decompress_any_block_aspect(
                             aspect,
                             SuperBlockRegion(Extent_raw_size(header.extent),
                                              header.footprint, super_pos),
                             Extent_raw_size(header.extent), m, src, st, 0),
                         aspect + 1)
        Finished(st) ==
            [err |-> IF st.err # "none" THEN st.err
                     ELSE IF Decoder_finish(st.d) = "panic" THEN "panic" ELSE "none",
             blocks |-> st.blocks]
    IN  Finished(Aspects(
            [blocks |-> blocks, d |-> Decoder_new,
             r |-> ReadBits_new(jackal_block.offset), err |-> "none"], 0))

\* decompress_any_block on a reader whose seek(SeekFrom::Start(offset))
\* returns an error: the `?` returns it before a decoder is made
decompress_any_block_seek_failed(blocks) == [err |-> "Io", blocks |-> blocks]

\* read_jackal_blocks: n index entries read one after another from pos
read_jackal_blocks(n, src, pos) ==
    LET Entries(read) ==
            [err |-> IF \E k \in 1..n : read[k].err # "none" THEN "Io" ELSE "none",
             jackal_blocks |-> [k \in 1..n |-> read[k].jackal_block]]
    IN  Entries([k \in 1..n |->
                    JackalBlock_read_from(src, pos + JackalBlock_BYTES_SIZE * (k - 1))])

\* a lookup that strides rows by the height of the super-block grid
jackal_block_index_HeightStride(jackal_blocks_extent, super_pos) ==
    super_pos[1] + super_pos[2] * jackal_blocks_extent[2]
    + super_pos[3] * jackal_blocks_extent[1] * jackal_blocks_extent[2]

\* jackal_blocks[(x + y * extent[0] + z * extent[0] * extent[1]) as usize]:
\* the position decompress_bc1_texture looks super-block [x, y, z] up at
jackal_block_index(jackal_blocks_extent, super_pos) ==
    super_pos[1] + super_pos[2] * jackal_blocks_extent[1]
    + super_pos[3] * jackal_blocks_extent[1] * jackal_blocks_extent[2]

\* the super-block loops of decompress_bc1_texture; st is [err, blocks]
RECURSIVE decompress_bc1_texture_loop(_, _, _, _, _, _)
decompress_bc1_texture_loop(header, jackal_blocks, src, m, st, i) ==
    IF st.err # "none" \/ i >= JackalHeader_jackal_blocks_count(header) THEN st
    ELSE decompress_bc1_texture_loop(
             header, jackal_blocks, src, m,
             decompress_any_block(header,
                                  SuperPos(JackalHeader_jackal_blocks_extent(header), i),
                                  jackal_blocks[jackal_block_index(
                                                    JackalHeader_jackal_blocks_extent(header),
                                                    SuperPos(JackalHeader_jackal_blocks_extent(
                                                                 header), i)) + 1],
                                  st.blocks, src, m),
             i + 1)

\* decompress_bc1_texture: header, index, a grid of Block::BLACK, then every
\* super-block in z, y, x order; returns [err, extent, blocks]
decompress_bc1_texture(src, m) ==
    LET Fail(err) == [err |-> err, extent |-> <<>>, blocks |-> <<>>]
        Decoded(header, st) ==
            IF st.err # "none" THEN Fail(st.err)
            ELSE [err |-> "none", extent |-> <<header.extent>>, blocks |-> st.blocks]
        Indexed(header, index) ==
            IF index.err # "none" THEN Fail(index.err)
            ELSE Decoded(header,
                         decompress_bc1_texture_loop(
                             header, index.jackal_blocks, src, m,
                             [err |-> "none",
                              blocks |-> [k \in 1..JackalHeader_blocks_count(header)
                                            |-> Block_BLACK]],
                             0))
        Headed(h) ==
            IF h.err # "none" THEN Fail(h.err)
            ELSE Indexed(h.header[1],
                         read_jackal_blocks(JackalHeader_jackal_blocks_count(h.header[1]),
                                            src, JackalHeader_BYTES_SIZE))
    IN  Headed(JackalHeader_read_from(src, 0))

(***************************************************************************)
(* Sessions. Each specification below drives one part of the crate and    *)
(* keeps the state of the others at the idle value defined here.           *)
(***************************************************************************)
InitLzwCommon ==
    /\ fed = 0
    /\ encoder = Encoder_new
    /\ writeBits = WriteBits_new(<<>>, 0)
    /\ decoder = Decoder_new
    /\ readBits = ReadBits_new(0)
    /\ decoded = <<>>

\* no LZW coder exists
IdleLzw ==
    /\ input = <<>>
    /\ InitLzwCommon
    /\ compressed = <<>>
    /\ lzwPc = "idle"
    /\ lzwLog = [kind |-> "idle", codes |-> <<>>, reads |-> <<>>, err |-> "none"]

\* no BoundZCurve exists
IdleZCurve ==
    /\ zcurve = [width |-> 0, height |-> 0, next_index |-> 0]
    /\ zItems = <<>>
    /\ zPc = "idle"
    /\ zVisited = <<>>

\* no block is being decoded
IdleBc1 ==
    /\ bcBlock = [color0 |-> 0, color1 |-> 0, texels |-> <<0, 0, 0, 0>>]
    /\ bcColors = <<>>
    /\ bcPc = "idle"
    /\ bcTile = <<>>
    /\ bcBytes = <<>>
    /\ bcRestored = <<>>
    /\ bcFit = <<>>

\* no container is being written or read
IdleJackal ==
    /\ jkExtent = Extent_new("D1", 0, 1, 1, 1)
    /\ jkBlocks = <<>>
    /\ jkModel = [weights |-> <<0, 0, 0, 0, 0, 0, 0, 0>>, bias |-> 0]
    /\ jkFile = <<>>
    /\ jkResult = <<>>
    /\ jkHeader = <<>>
    /\ jkIndex = <<>>
    /\ jkGrid = <<>>
    /\ jkDone = <<>>
    /\ jkAlt = <<>>
    /\ jkPc = "idle"

\* no header is being read
IdleHeader ==
    /\ hdrInput = <<>>
    /\ hdrResult = <<>>
    /\ hdrPc = "idle"
    /\ hdrIndex = <<>>

\* no compress_texture call is in progress
IdleWriter ==
    /\ wrTexture = [extent |-> Extent_new("D1", 0, 1, 1, 1), blocks |-> <<>>,
                    m |-> [weights |-> <<0, 0, 0, 0, 0, 0, 0, 0>>, bias |-> 0]]
    /\ wrSink = [out |-> <<>>, pos |-> 0, replies |-> <<>>, err |-> "none"]
    /\ wrLoop = [i |-> 0, next_jackal_block_pos |-> 0, next_data_pos |-> 0]
    /\ wrOps = <<>>
    /\ wrRead = <<>>
    /\ wrPc = "idle"

\* no bit stream is being written or read
IdleBits ==
    /\ btBuild = "release"
    /\ btWrites = <<>>
    /\ btWriter = WriteBits_new(<<>>, 0)
    /\ btReader = ReadBits_new(0)
    /\ btReads = <<>>
    /\ btPc = "idle"

\* no cluster fit is running
IdleClusterFit ==
    /\ cfBuild = "release"
    /\ cfInput = [samples |-> <<>>, I |-> 2, remap |-> "identity", error |-> "abs"]
    /\ cfCuts = <<>>
    /\ cfBest = [endpoints |-> <<>>, indices |-> <<>>, error |-> <<0, 1>>]
    /\ cfLog = <<>>
    /\ cfPc = "idle"

\* no colour is being converted
IdleQuantise ==
    /\ qzBits = <<>>
    /\ qzColor = <<>>
    /\ qzBack = <<>>
    /\ qzPc = "idle"

IdleExceptLzw == IdleZCurve /\ IdleBc1 /\ IdleJackal /\ IdleHeader /\ IdleWriter /\ IdleBits /\ IdleClusterFit /\ IdleQuantise

IdleExceptZCurve == IdleLzw /\ IdleBc1 /\ IdleJackal /\ IdleHeader /\ IdleWriter /\ IdleBits /\ IdleClusterFit /\ IdleQuantise

IdleExceptBc1 == IdleLzw /\ IdleZCurve /\ IdleJackal /\ IdleHeader /\ IdleWriter /\ IdleBits /\ IdleClusterFit /\ IdleQuantise

IdleExceptJackal == IdleLzw /\ IdleZCurve /\ IdleBc1 /\ IdleHeader /\ IdleWriter /\ IdleBits /\ IdleClusterFit /\ IdleQuantise

IdleExceptHeader == IdleLzw /\ IdleZCurve /\ IdleBc1 /\ IdleJackal /\ IdleWriter /\ IdleBits /\ IdleClusterFit /\ IdleQuantise

IdleExceptWriter == IdleLzw /\ IdleZCurve /\ IdleBc1 /\ IdleJackal /\ IdleHeader /\ IdleBits /\ IdleClusterFit /\ IdleQuantise

IdleExceptBits == IdleLzw /\ IdleZCurve /\ IdleBc1 /\ IdleJackal /\ IdleHeader /\ IdleWriter /\ IdleClusterFit /\ IdleQuantise

IdleExceptClusterFit == IdleLzw /\ IdleZCurve /\ IdleBc1 /\ IdleJackal /\ IdleHeader /\ IdleWriter /\ IdleBits /\ IdleQuantise

IdleExceptQuantise == IdleLzw /\ IdleZCurve /\ IdleBc1 /\ IdleJackal /\ IdleHeader /\ IdleWriter /\ IdleBits /\ IdleClusterFit

(***************************************************************************)
(* LZW session: a caller encodes `input` symbol by symbol, finishes the    *)
(* encoder and the bit writer, and a second caller decodes from the bytes  *)
(* (lzw.rs test_u16, jackal.rs compress_any_block / decompress_any_block). *)
(* The bytes handed to the decoder are the encoder's ("encoded"), a proper *)
(* prefix of them ("truncated"), or arbitrary ("raw").                     *)
(***************************************************************************)
LzwAlphabet == {0, 1, 255}

RawBytes == {0, 1, 44, 255}

RECURSIVE SeqsUpTo(_, _)
SeqsUpTo(S, n) ==
    IF n = 0 THEN {<<>>}
    ELSE LET shorter == SeqsUpTo(S, n - 1)
         IN  shorter \cup {Append(q, x) : q \in {t \in shorter : Len(t) = n - 1}, x \in S}

\* the data of test_u16, an input long enough to fill the 128-bit buffer,
\* and one whose every pair of neighbours is new, long enough to take
\* next_code past 512
LongInputs ==
    { <<1, 1, 2, 1, 1, 2, 3, 1, 2, 1, 1, 1, 2, 1, 1, 3, 3, 1, 1, 1, 2>>,
      [i \in 1..20 |-> i - 1],
      [i \in 1..260 |-> IF i <= 256 THEN i - 1 ELSE 2 * (i - 257)] }

IsPrefix(p, q) == Len(p) <= Len(q) /\ p = SubSeq(q, 1, Len(p))

InitLzwEncode ==
    /\ input \in SeqsUpTo(LzwAlphabet, MaxLen) \cup LongInputs
    /\ compressed = <<>>
    /\ lzwPc = "encode"
    /\ lzwLog = [kind |-> "encoded", codes |-> <<>>, reads |-> <<>>, err |-> "none"]

InitLzwRaw ==
    /\ input = <<>>
    /\ compressed \in SeqsUpTo(RawBytes, MaxStream)
    /\ lzwPc = "decode"
    /\ lzwLog = [kind |-> "raw", codes |-> <<>>, reads |-> <<>>, err |-> "none"]

InitLzw == InitLzwCommon /\ (InitLzwEncode \/ InitLzwRaw) /\ IdleExceptLzw

\* encoder.encode(byte, &mut writer)
Encode ==
    /\ lzwPc = "encode"
    /\ fed < Len(input)
    /\ LET Encoded(r) ==
               /\ encoder' = r.e
               /\ writeBits' = r.w
               /\ lzwLog' = [lzwLog EXCEPT !.codes = lzwLog.codes \o r.code]
       IN  Encoded(Encoder_encode(encoder, input[fed + 1], writeBits))
    /\ fed' = fed + 1
    /\ UNCHANGED <<input, compressed, decoder, readBits, decoded, lzwPc>>
    /\ UNCHANGED notLzwVars

\* encoder.finish(&mut writer); writer.finish()
Finish ==
    /\ lzwPc = "encode"
    /\ fed = Len(input)
    /\ LET Finished(r) ==
               LET Flushed(w) == writeBits' = w /\ compressed' = w.out
               IN  /\ Flushed(WriteBits_finish(r.w))
                   /\ lzwLog' = [lzwLog EXCEPT !.codes = lzwLog.codes \o r.code]
       IN  Finished(Encoder_finish(encoder, writeBits))
    /\ encoder' = [encoder EXCEPT !.prefix = <<>>]
    /\ lzwPc' = "decode"
    /\ UNCHANGED <<input, fed, decoder, readBits, decoded>>
    /\ UNCHANGED notLzwVars

\* the stream is cut short before the decoder sees it
Truncate ==
    /\ lzwPc = "decode"
    /\ lzwLog.kind = "encoded"
    /\ lzwLog.reads = <<>>
    /\ decoded = <<>>
    /\ \E n \in 0..(Len(compressed) - 1) : compressed' = SubSeq(compressed, 1, n)
    /\ lzwLog' = [lzwLog EXCEPT !.kind = "truncated"]
    /\ UNCHANGED <<input, fed, encoder, writeBits, decoder, readBits, decoded, lzwPc>>
    /\ UNCHANGED notLzwVars

\* decoder.decode_next(&mut reader)
DecodeNext ==
    /\ lzwPc = "decode"
    /\ Len(decoded) < (IF lzwLog.kind = "raw" THEN MaxRequests ELSE Len(input))
    /\ LET Returned(r) ==
               /\ decoder' = r.d
               /\ readBits' = r.r
               /\ lzwLog' = [lzwLog EXCEPT !.reads = lzwLog.reads \o r.reads,
                                           !.err = r.err]
               /\ IF r.err = "none"
                  THEN decoded' = Append(decoded, r.element) /\ lzwPc' = lzwPc
                  ELSE decoded' = decoded /\ lzwPc' = "error"
       IN  Returned(Decoder_decode_next(decoder, readBits, compressed, <<>>))
    /\ UNCHANGED <<input, fed, encoder, writeBits, compressed>>
    /\ UNCHANGED notLzwVars

\* decoder.finish()
DecoderFinish ==
    /\ lzwPc = "decode"
    /\ lzwPc' = IF Decoder_finish(decoder) = "ok" THEN "done" ELSE "panic"
    /\ UNCHANGED <<input, fed, encoder, writeBits, compressed, decoder, readBits,
                   decoded, lzwLog>>
    /\ UNCHANGED notLzwVars

NextLzw == Encode \/ Finish \/ Truncate \/ DecodeNext \/ DecoderFinish

SpecLzw == InitLzw /\ [][NextLzw]_vars

(***************************************************************************)
(* Z-curve session: BoundZCurve::new(width, height), then next() until it  *)
(* returns None (rzo.collect() in test_rect_z_order); next to it the block  *)
(* loops of jackal.rs walk a region of the same width and height.          *)
(***************************************************************************)
InitZCurve ==
    /\ \E width \in 0..MaxDim, height \in 0..MaxDim :
          zcurve = BoundZCurve_new(width, height)
    /\ zItems = <<>>
    /\ zPc = "iter"
    /\ zVisited = <<>>
    /\ IdleExceptZCurve

\* rzo.next()
ZNext ==
    /\ zPc = "iter"
    /\ LET Returned(r) ==
               /\ zcurve' = r.z
               /\ IF r.item = <<>>
                  THEN zItems' = zItems /\ zPc' = "done"
                  ELSE zItems' = zItems \o r.item /\ zPc' = "iter"
       IN  Returned(BoundZCurve_next(zcurve))
    /\ UNCHANGED zVisited
    /\ UNCHANGED notZVars

\* one more iteration of the y, x loops of compress_any_block_aspect and
\* decompress_any_block_aspect over the region 0..width, 0..height
AspectVisit ==
    /\ zPc \in {"iter", "done"}
    /\ Len(zVisited) < zcurve.width * zcurve.height
    /\ zVisited' = Append(zVisited,
                          aspect_loop_coord([x_start |-> 0, x_end |-> zcurve.width,
                                             y_start |-> 0, y_end |-> zcurve.height,
                                             z |-> 0],
                                            Len(zVisited)))
    /\ UNCHANGED <<zcurve, zItems, zPc>>
    /\ UNCHANGED notZVars

NextZCurve == ZNext \/ AspectVisit

SpecZCurve == InitZCurve /\ [][NextZCurve]_vars

(***************************************************************************)
(* BC1 session: a block is built, or encoded from a tile of colours with   *)
(* Block::encode, and Block::decode is applied to it.                      *)
(***************************************************************************)
Bc1Endpoints == {0, 1, 31, 2016, 63488, 65535}

Bc1Texels == { <<0, 0, 0, 0>>, <<228, 27, 85, 170>>, <<255, 255, 255, 255>> }

\* channel values in quarters: below 0, 0, 1/2, 3/4, 1 and above 1
TileChannels == {-4, 0, 2, 3, 4, 8}

TileColors == {<<r, g, b>> : r \in TileChannels, g \in TileChannels, b \in TileChannels}

\* a tile of three colours: a on the diagonal, b in row 1 and column 2
\* off the diagonal, c elsewhere
Tile3(a, b, c) ==
    [i \in 0..3 |-> [j \in 0..3 |->
        IF i = j THEN a ELSE IF i = 1 \/ j = 2 THEN b ELSE c]]

\* tiles of one colour, tiles whose last texel has another colour, tiles
\* whose two colours quantise to the same Rgb565, and tiles of three
\* colours
Tiles ==
    {[i \in 0..3 |-> [j \in 0..3 |-> c]] : c \in TileColors}
    \cup {[i \in 0..3 |-> [j \in 0..3 |-> IF i = 3 /\ j = 3 THEN d ELSE <<0, 0, 0>>]] :
             d \in {<<4, 4, 4>>, <<0, 2, 0>>, <<-4, -4, -4>>}}
    \cup {[i \in 0..3 |-> [j \in 0..3 |-> IF i = 0 /\ j = 1 THEN <<8, 8, 8>> ELSE <<4, 4, 4>>]]}
    \cup {Tile3(<<0, 0, 0>>, <<2, 2, 2>>, <<4, 4, 4>>),
          Tile3(<<4, 0, 0>>, <<0, 0, 4>>, <<2, 3, 2>>)}

\* the colours of a tile
TileColorsOf(colors) == {colors[i][j] : i \in 0..3, j \in 0..3}

\* the outcomes the comparisons of Block::encode can have on a tile
SearchOutcomes(colors) ==
    {[mode |-> "3", diagonal |-> d, nearest |-> n] :
        d \in 1..4, n \in [TileColorsOf(colors) -> 0..2]}
    \cup {[mode |-> "4", diagonal |-> d, nearest |-> n] :
        d \in 1..4, n \in [TileColorsOf(colors) -> 0..3]}

\* blocks the endpoint search can end with: equal endpoints only with zero
\* texels (bc1.rs:210-216, 230-236)
FittedBlocks ==
    {b \in [color0 : Bc1Endpoints, color1 : Bc1Endpoints, texels : Bc1Texels] :
        b.color0 = b.color1 => b.texels = <<0, 0, 0, 0>>}

InitBc1 ==
    /\ \/ /\ \E color0 \in Bc1Endpoints, color1 \in Bc1Endpoints, texels \in Bc1Texels :
                bcBlock = [color0 |-> color0, color1 |-> color1, texels |-> texels]
          /\ bcTile = <<>>
          /\ bcPc = "block"
       \/ /\ bcBlock = [color0 |-> 0, color1 |-> 0, texels |-> <<0, 0, 0, 0>>]
          /\ bcTile \in Tiles
          /\ bcPc = "tile"
    /\ bcColors = <<>>
    /\ bcBytes = <<>>
    /\ bcRestored = <<>>
    /\ bcFit = <<>>
    /\ IdleExceptBc1

\* Block::encode(colors, optimize)
BlockEncode ==
    /\ bcPc = "tile"
    /\ \E search \in SearchOutcomes(bcTile) :
           LET fitted == Block_encode_fitted(bcTile, search)
           IN  /\ bcBlock' = Block_encode(bcTile, fitted)
               /\ bcFit' = IF Region3_is_singular(Region3_new(bcTile))
                               \/ fitted.color0 = fitted.color1
                            THEN [mode |-> "flat", diagonal |-> 0, nearest |-> <<>>]
                            ELSE search
    /\ bcPc' = "block"
    /\ UNCHANGED <<bcColors, bcTile, bcBytes, bcRestored>>
    /\ UNCHANGED notBc1Vars

\* block.decode()
BlockDecode ==
    /\ bcPc = "block"
    /\ bcColors' = Block_decode(bcBlock)
    /\ bcPc' = "decoded"
    /\ UNCHANGED <<bcBlock, bcTile, bcBytes, bcRestored, bcFit>>
    /\ UNCHANGED notBc1Vars

\* block.bytes()
BlockBytes ==
    /\ bcPc = "block"
    /\ bcBytes' = Block_bytes(bcBlock)
    /\ bcPc' = "bytes"
    /\ UNCHANGED <<bcBlock, bcColors, bcTile, bcRestored, bcFit>>
    /\ UNCHANGED notBc1Vars

\* Block::from_bytes(bytes)
BlockFromBytes ==
    /\ bcPc = "bytes"
    /\ bcRestored' = <<Block_from_bytes(bcBytes)>>
    /\ bcPc' = "restored"
    /\ UNCHANGED <<bcBlock, bcColors, bcTile, bcBytes, bcFit>>
    /\ UNCHANGED notBc1Vars

NextBc1 == BlockEncode \/ BlockDecode \/ BlockBytes \/ BlockFromBytes

SpecBc1 == InitBc1 /\ [][NextBc1]_vars

(***************************************************************************)
(* Header session: a caller hands bytes to read_header, the first step of  *)
(* decompress_bc1_texture, in either generation of the container.  The     *)
(* inputs are runs of zero bytes and headers of both layouts with right    *)
(* and wrong magic numbers, reserved ids and invalid extents.              *)
(***************************************************************************)
HeaderMagics == {MAGIC_VER_0, MAGIC_NUMBER, <<74, 75, 76, 0>>}

HeaderSizes == {<<1, 1, 1>>, <<2, 1, 1>>, <<2, 2, 1>>, <<2, 1, 2>>, <<0, 1, 1>>, <<1, 1, 0>>}

\* config words: every dimension, a reserved format id, footprint ids 1 and
\* 24, levels 29 and 30
HeaderConfigs == {0, 5, 6, 9, 10, 240, 250, 500, 750, 1000, 1250, 1500, 36250, 37500}

HeaderInputs ==
    {Zeros(n) : n \in 0..26}
    \cup {magic \o u32_to_le_bytes(c)
                \o u32_to_le_bytes(s[1]) \o u32_to_le_bytes(s[2]) \o u32_to_le_bytes(s[3])
                \o tail :
            magic \in HeaderMagics, c \in HeaderConfigs, s \in HeaderSizes,
            tail \in {<<>>, Zeros(8)}}
    \cup {magic \o <<levels, 0>> \o <<format, 0>> \o sbs \o <<dimensions, 0>>
                \o u32_to_le_bytes(s[1]) \o u32_to_le_bytes(s[2]) \o u32_to_le_bytes(s[3])
                \o tail :
            magic \in HeaderMagics, levels \in {0, 1}, format \in {0, 6},
            sbs \in {<<4, 4>>, <<16, 4>>}, dimensions \in {0, 1, 4, 5},
            s \in HeaderSizes, tail \in {<<>>, <<0, 0>>}}

\* textures whose containers are handed to read_header as written
WrittenExtents ==
    {Extent_new("D1", 1, 1, 1, 1), Extent_new("D2", 2, 2, 1, 1),
     Extent_new("D3", 2, 1, 2, 1), Extent_new("D2Array", 1, 1, 1, 3)}

\* what compress_bc1_texture of either generation wrote for a texture of
\* black blocks: the bytes, the size of the header in them, and for every
\* index entry the position it was stored at and the offset it holds
WrittenFiles ==
    LET Jkl0(header, out) ==
            [gen |-> "JKL0", out |-> out,
             header_len |-> Len(JackalHeader_write_to(header)),
             entries |-> [k \in 1..JackalHeader_jackal_blocks_count(header) |->
                             [pos |-> JackalHeader_BYTES_SIZE
                                      + JackalBlock_BYTES_SIZE * (k - 1),
                              offset |-> JackalBlock_read_from(
                                             out,
                                             JackalHeader_BYTES_SIZE
                                             + JackalBlock_BYTES_SIZE * (k - 1))
                                         .jackal_block.offset]]]
        Jkli(w) == [gen |-> "JKLI", out |-> w.out, header_len |-> w.header_len,
                    entries |-> w.entries]
    IN  {Jkl0(compress_texture_header(e),
              compress_texture(e,
                               [k \in 1..(Extent_raw_size(e)[1] * Extent_raw_size(e)[2]
                                          * Extent_raw_size(e)[3]) |-> Block_BLACK],
                               [weights |-> [i \in 1..8 |-> 0], bias |-> 0])) :
            e \in WrittenExtents}
        \cup {Jkli(hdr_compress_texture(e, sizes)) :
                 e \in WrittenExtents, sizes \in {<<1, 1, 1>>, <<2, 5, 3>>}}

InitHeader ==
    /\ hdrInput \in HeaderInputs \cup {w.out : w \in WrittenFiles}
    /\ hdrResult = <<>>
    /\ hdrPc = "input"
    /\ hdrIndex = <<>>
    /\ IdleExceptHeader

\* jackal.rs read_header
ReadHeaderJkl0 ==
    /\ hdrPc = "input"
    /\ hdrResult' = <<[gen |-> "JKL0", res |-> JackalHeader_read_from(hdrInput, 0)]>>
    /\ hdrPc' = "read"
    /\ UNCHANGED <<hdrInput, hdrIndex>>
    /\ UNCHANGED notHdrVars

\* jackal/mod.rs read_header
ReadHeaderJkli ==
    /\ hdrPc = "input"
    /\ hdrResult' = <<[gen |-> "JKLI", res |-> hdr_JackalHeader_read_from(hdrInput, 0)]>>
    /\ hdrPc' = "read"
    /\ UNCHANGED <<hdrInput, hdrIndex>>
    /\ UNCHANGED notHdrVars

\* read_jackal_blocks on a reader standing at pos: the entries with the
\* position each was read from; the first entry the input cannot fill ends
\* the call with the reader's error and the entries are dropped
IndexRead(n, src, pos) ==
    IF n > (Len(src) - pos) \div JackalBlock_BYTES_SIZE
    THEN [err |-> "Io", entries |-> <<>>]
    ELSE LET Read(index) ==
                 [err |-> index.err,
                  entries |-> [k \in 1..n |->
                                  [pos |-> pos + JackalBlock_BYTES_SIZE * (k - 1),
                                   offset |-> index.jackal_blocks[k].offset]]]
         IN  Read(read_jackal_blocks(n, src, pos))

\* jackal.rs decompress_bc1_texture: read_jackal_blocks on the reader that
\* read_header has advanced
ReadIndexJkl0 ==
    /\ hdrPc = "read"
    /\ hdrResult[1].gen = "JKL0"
    /\ hdrResult[1].res.err = "none"
    /\ hdrIndex' = <<IndexRead(JackalHeader_jackal_blocks_count(hdrResult[1].res.header[1]),
                                hdrInput, hdrResult[1].res.read)>>
    /\ hdrPc' = "index"
    /\ UNCHANGED <<hdrInput, hdrResult>>
    /\ UNCHANGED notHdrVars

\* jackal/mod.rs decompress_bc1_texture: read_jackal_blocks on the reader
\* that read_header has advanced
ReadIndexJkli ==
    /\ hdrPc = "read"
    /\ hdrResult[1].gen = "JKLI"
    /\ hdrResult[1].res.err = "none"
    /\ hdrIndex' = <<IndexRead(
                         hdr_JackalHeader_jackal_blocks_count(hdrResult[1].res.header[1]),
                         hdrInput, hdrResult[1].res.read)>>
    /\ hdrPc' = "index"
    /\ UNCHANGED <<hdrInput, hdrResult>>
    /\ UNCHANGED notHdrVars

NextHeader == ReadHeaderJkl0 \/ ReadHeaderJkli \/ ReadIndexJkl0 \/ ReadIndexJkli

SpecHeader == InitHeader /\ [][NextHeader]_vars

(***************************************************************************)
(* Container session: a caller compresses a block grid into an empty       *)
(* Vec<u8> with compress_bc1_texture; the bytes are then either decoded    *)
(* with decompress_bc1_texture and, through the public per-super-block    *)
(* API (read_header, read_jackal_blocks, decompress_bc1_blocks), decoded   *)
(* again super-block by super-block in any order into a grid of            *)
(* Block::BLACK, or one super-block is compressed once more from a second  *)
(* grid with compress_bc1_blocks.  Model::new() is seeded with a constant, *)
(* so every coder of a session starts from the same predictor, jkModel.    *)
(***************************************************************************)
ExtentSet ==
    {e \in {Extent_new("D1", w, 1, 1, 1) : w \in 1..MaxExtent}
           \cup {Extent_new("D2", w, h, 1, 1) : w \in 1..MaxExtent, h \in 1..MaxExtent}
           \cup {Extent_new("D3", w, h, d, 1) :
                    w \in 1..MaxExtent, h \in 1..MaxExtent, d \in 1..MaxExtent}
           \cup {Extent_new("D1Array", w, 1, 1, l) : w \in 1..MaxExtent, l \in 1..MaxExtent}
           \cup {Extent_new("D2Array", w, h, 1, l) :
                    w \in 1..MaxExtent, h \in 1..MaxExtent, l \in 1..MaxExtent} :
        Extent_raw_size(e)[1] * Extent_raw_size(e)[2] * Extent_raw_size(e)[3] <= MaxBlocks}

BlockSet == {Block_BLACK, Block_WHITE}

\* textures with more than one super-block along two axes at once, each
\* with one grid whose super-blocks differ from one another
LargeExtents ==
    { Extent_new("D2", 3, 3, 1, 1), Extent_new("D3", 3, 1, 2, 1),
      Extent_new("D3", 1, 3, 2, 1), Extent_new("D2Array", 3, 1, 1, 2) }

LargeGrid(e) ==
    [k \in 1..(Extent_raw_size(e)[1] * Extent_raw_size(e)[2] * Extent_raw_size(e)[3]) |->
        IF k % 3 = 1 THEN Block_WHITE ELSE Block_BLACK]

\* predictors: one that ignores its kernel and one that weighs every lane
ModelSet == {[weights |-> [i \in 1..8 |-> n], bias |-> 0] : n \in {0, 1}}

\* 0-based indices of the blocks inside region g
RegionIndices(raw_size, g) ==
    {x + y * raw_size[1] + g.z * raw_size[1] * raw_size[2] :
        x \in g.x_start..(g.x_end - 1), y \in g.y_start..(g.y_end - 1)}

\* region of the i-th super-block of the session's texture
JkRegion(i) ==
    SuperBlockRegion(Extent_raw_size(jkExtent), Footprint_from_size(0, 0),
                     SuperPos(JackalHeader_jackal_blocks_extent(
                                  compress_texture_header(jkExtent)), i))

InitJackal ==
    /\ \/ /\ jkExtent \in ExtentSet
          /\ jkBlocks \in [1..(Extent_raw_size(jkExtent)[1] * Extent_raw_size(jkExtent)[2]
                               * Extent_raw_size(jkExtent)[3]) -> BlockSet]
       \/ /\ jkExtent \in LargeExtents
          /\ jkBlocks = LargeGrid(jkExtent)
    /\ jkModel \in ModelSet
    /\ jkFile = <<>>
    /\ jkResult = <<>>
    /\ jkHeader = <<>>
    /\ jkIndex = <<>>
    /\ jkGrid = <<>>
    /\ jkDone = <<>>
    /\ jkAlt = <<>>
    /\ jkPc = "blocks"
    /\ IdleExceptJackal

\* compress_bc1_texture(extent, blocks, Cursor::new(&mut Vec::new()))
CompressTexture ==
    /\ jkPc = "blocks"
    /\ jkFile' = compress_texture(jkExtent, jkBlocks, jkModel)
    /\ jkPc' = "file"
    /\ UNCHANGED <<jkExtent, jkBlocks, jkModel, jkResult, jkHeader, jkIndex, jkGrid,
                   jkDone, jkAlt>>
    /\ UNCHANGED notJkVars

\* decompress_bc1_texture(Cursor::new(&file))
DecompressTexture ==
    /\ jkPc = "file"
    /\ jkResult' = <<decompress_bc1_texture(jkFile, jkModel)>>
    /\ jkPc' = "decoded"
    /\ UNCHANGED <<jkExtent, jkBlocks, jkModel, jkFile, jkHeader, jkIndex, jkGrid,
                   jkDone, jkAlt>>
    /\ UNCHANGED notJkVars

\* read_header(&mut read)
ReadHeader ==
    /\ jkPc = "decoded"
    /\ LET Read(h) ==
               /\ jkHeader' = <<h>>
               /\ jkPc' = IF h.err = "none" THEN "header" ELSE "error"
       IN  Read(JackalHeader_read_from(jkFile, 0))
    /\ UNCHANGED <<jkExtent, jkBlocks, jkModel, jkFile, jkResult, jkIndex, jkGrid,
                   jkDone, jkAlt>>
    /\ UNCHANGED notJkVars

\* read_jackal_blocks into a vec of jackal_blocks_count entries, and the
\* caller's vec![Block::BLACK; blocks_count]
ReadJackalBlocks ==
    /\ jkPc = "header"
    /\ LET Read(index) ==
               /\ jkIndex' = index.jackal_blocks
               /\ jkPc' = IF index.err = "none" THEN "index" ELSE "error"
       IN  Read(read_jackal_blocks(JackalHeader_jackal_blocks_count(jkHeader[1].header[1]),
                                   jkFile, JackalHeader_BYTES_SIZE))
    /\ jkGrid' = [k \in 1..JackalHeader_blocks_count(jkHeader[1].header[1]) |-> Block_BLACK]
    /\ UNCHANGED <<jkExtent, jkBlocks, jkModel, jkFile, jkResult, jkHeader, jkDone, jkAlt>>
    /\ UNCHANGED notJkVars

\* decompress_bc1_blocks(header, super_pos, index[i], &mut grid, read) for a
\* super-block not decoded yet
DecompressBlocks ==
    /\ jkPc = "index"
    /\ \E i \in 0..(Len(jkIndex) - 1) :
          /\ \A k \in 1..Len(jkDone) : jkDone[k] # i
          /\ LET Decoded(st) ==
                     /\ jkGrid' = st.blocks
                     /\ jkPc' = IF st.err = "none" THEN "index" ELSE "error"
             IN  Decoded(decompress_any_block(
                             jkHeader[1].header[1],
                             SuperPos(JackalHeader_jackal_blocks_extent(jkHeader[1].header[1]), i),
                             jkIndex[i + 1], jkGrid, jkFile, jkModel))
          /\ jkDone' = Append(jkDone, i)
    /\ UNCHANGED <<jkExtent, jkBlocks, jkModel, jkFile, jkResult, jkHeader, jkIndex, jkAlt>>
    /\ UNCHANGED notJkVars

\* decompress_bc1_blocks(header, super_pos, index[i], &mut grid, read) with
\* a reader whose seek fails: the call returns the error at once
DecompressBlocksSeekFails ==
    /\ jkPc = "index"
    /\ \E i \in 0..(Len(jkIndex) - 1) :
          /\ \A k \in 1..Len(jkDone) : jkDone[k] # i
          /\ jkDone' = Append(jkDone, i)
    /\ jkGrid' = decompress_any_block_seek_failed(jkGrid).blocks
    /\ jkPc' = "error"
    /\ UNCHANGED <<jkExtent, jkBlocks, jkModel, jkFile, jkResult, jkHeader, jkIndex, jkAlt>>
    /\ UNCHANGED notJkVars

\* compress_bc1_blocks(header, super_pos, index[i], &blocks2, write) into a
\* second, empty Vec, for a grid blocks2 of the same extent that agrees with
\* jkBlocks inside super-block i
CompressBlocks ==
    /\ jkPc = "file"
    /\ \E i \in 0..(JackalHeader_jackal_blocks_count(compress_texture_header(jkExtent)) - 1),
          blocks2 \in [1..Len(jkBlocks) -> BlockSet] :
          /\ \A k \in RegionIndices(Extent_raw_size(jkExtent), JkRegion(i)) :
                 blocks2[k + 1] = jkBlocks[k + 1]
          /\ LET Written(jackal_block, w) ==
                     jkAlt' = <<[i |-> i, blocks |-> blocks2,
                                 offset |-> jackal_block.offset,
                                 out |-> w.out, pos |-> w.pos]>>
                 Entry(jackal_block) ==
                     Written(jackal_block,
                             compress_bc1_blocks(compress_texture_header(jkExtent),
                                                 SuperPos(JackalHeader_jackal_blocks_extent(
                                                              compress_texture_header(jkExtent)), i),
                                                 jackal_block, blocks2, jkModel, <<>>))
             IN  Entry(JackalBlock_read_from(
                           jkFile, JackalHeader_BYTES_SIZE + JackalBlock_BYTES_SIZE * i).jackal_block)
    /\ jkPc' = "recompressed"
    /\ UNCHANGED <<jkExtent, jkBlocks, jkModel, jkFile, jkResult, jkHeader, jkIndex,
                   jkGrid, jkDone>>
    /\ UNCHANGED notJkVars

NextJackal ==
    \/ CompressTexture
    \/ DecompressTexture
    \/ ReadHeader
    \/ ReadJackalBlocks
    \/ DecompressBlocks
    \/ DecompressBlocksSeekFails
    \/ CompressBlocks

SpecJackal == InitJackal /\ [][NextJackal]_vars

(***************************************************************************)
(* Writer session: compress_texture (jackal.rs:845-923) taken one stream   *)
(* operation at a time on an empty sink.  The sink is the Cursor over a    *)
(* Vec<u8>, or a sink that answers one of its first MaxFaultAt calls of    *)
(* write with Ok(1), Ok(0) or Err and stores everything otherwise; its     *)
(* seeks do not fail.  The caller may drop the call between any two        *)
(* operations and hand the bytes written so far to read_header.  The       *)
(* writes a payload is made of (WriteBits::flush and finish) are taken as  *)
(* one step.                                                               *)
(***************************************************************************)
MaxFaultAt == 5

\* what the sink answers: everything stored, or one odd answer at call k
SinkReplies ==
    {<<>>} \cup {[n \in 1..k |-> IF n < k THEN "all" ELSE reply] :
                    k \in 1..MaxFaultAt, reply \in {"one", "zero", "err"}}

\* the header of the texture being written
WrHeader == compress_texture_header(wrTexture.extent)

InitWriter ==
    /\ \E e \in ExtentSet :
         \E b \in [1..(Extent_raw_size(e)[1] * Extent_raw_size(e)[2]
                          * Extent_raw_size(e)[3]) -> BlockSet] :
           \E m \in ModelSet :
             wrTexture = [extent |-> e, blocks |-> b, m |-> m]
    /\ \E replies \in SinkReplies :
         wrSink = [out |-> <<>>, pos |-> 0, replies |-> replies, err |-> "none"]
    /\ wrLoop = [i |-> 0, next_jackal_block_pos |-> 0, next_data_pos |-> 0]
    /\ wrOps = <<>>
    /\ wrRead = <<>>
    /\ wrPc = "start"
    /\ IdleExceptWriter

\* start = seek(Current(0)); header.write_to(&mut write)?; the loop variables
WriteHeader ==
    /\ wrPc = "start"
    /\ LET Wrote(r) ==
               /\ wrSink' = r
               /\ wrPc' = IF r.err = "none" THEN "entry" ELSE "failed"
       IN  Wrote(Write_write_all(wrSink.out, wrSink.pos, wrSink.replies,
                                 JackalHeader_write_to(WrHeader)))
    /\ wrLoop' = [i |-> 0,
                  next_jackal_block_pos |-> wrSink.pos + JackalHeader_BYTES_SIZE,
                  next_data_pos |->
                      wrSink.pos + JackalHeader_BYTES_SIZE
                      + JackalBlock_BYTES_SIZE * JackalHeader_jackal_blocks_count(WrHeader)]
    /\ wrOps' = wrOps \o <<[op |-> "seek", what |-> "start", i |-> 0, at |-> wrSink.pos],
                          [op |-> "write", what |-> "header", i |-> 0, at |-> wrSink.pos]>>
    /\ UNCHANGED <<wrTexture, wrRead>>
    /\ UNCHANGED notWrVars

\* seek(Start(next_jackal_block_pos)); sb.write_to(&mut write)?
WriteEntry ==
    /\ wrPc = "entry"
    /\ wrLoop.i < JackalHeader_jackal_blocks_count(WrHeader)
    /\ LET Wrote(r) ==
               /\ wrSink' = r
               /\ wrPc' = IF r.err = "none" THEN "payload" ELSE "failed"
       IN  Wrote(Write_write_all(wrSink.out, wrLoop.next_jackal_block_pos, wrSink.replies,
                                 JackalBlock_write_to([offset |-> wrLoop.next_data_pos])))
    /\ wrLoop' = [wrLoop EXCEPT !.next_jackal_block_pos = @ + JackalBlock_BYTES_SIZE]
    /\ wrOps' = wrOps \o <<[op |-> "seek", what |-> "entry", i |-> wrLoop.i,
                           at |-> wrLoop.next_jackal_block_pos],
                          [op |-> "write", what |-> "entry", i |-> wrLoop.i,
                           at |-> wrLoop.next_jackal_block_pos]>>
    /\ UNCHANGED <<wrTexture, wrRead>>
    /\ UNCHANGED notWrVars

\* seek(Start(next_data_pos)); compress_any_block(..)?;
\* next_data_pos = seek(Current(0))
WritePayload ==
    /\ wrPc = "payload"
    /\ LET Written(w) ==
               /\ wrSink' = [out |-> w.out, pos |-> w.pos, replies |-> w.replies,
                             err |-> w.err]
               /\ wrLoop' = [wrLoop EXCEPT !.i = @ + 1, !.next_data_pos = w.pos]
               /\ wrPc' = IF w.err = "none" THEN "entry" ELSE "failed"
       IN  Written(compress_any_block(
                       SuperBlockRegion(Extent_raw_size(wrTexture.extent), WrHeader.footprint,
                                        SuperPos(JackalHeader_jackal_blocks_extent(WrHeader),
                                                 wrLoop.i)),
                       Extent_raw_size(wrTexture.extent), wrTexture.blocks, wrTexture.m,
                       [out |-> wrSink.out, pos |-> wrLoop.next_data_pos,
                        replies |-> wrSink.replies]))
    /\ wrOps' = wrOps \o <<[op |-> "seek", what |-> "payload", i |-> wrLoop.i,
                           at |-> wrLoop.next_data_pos],
                          [op |-> "write", what |-> "payload", i |-> wrLoop.i,
                           at |-> wrLoop.next_data_pos]>>
                   \o IF wrSink'.err = "none"
                      THEN <<[op |-> "seek", what |-> "end", i |-> wrLoop.i,
                              at |-> wrSink'.pos]>>
                      ELSE <<>>
    /\ UNCHANGED <<wrTexture, wrRead>>
    /\ UNCHANGED notWrVars

\* the loops are over: Ok(())
WriterReturn ==
    /\ wrPc = "entry"
    /\ wrLoop.i >= JackalHeader_jackal_blocks_count(WrHeader)
    /\ wrPc' = "done"
    /\ UNCHANGED <<wrTexture, wrSink, wrLoop, wrOps, wrRead>>
    /\ UNCHANGED notWrVars

\* the call is dropped with operations left to do, and read_header is given
\* the bytes written so far
ReadAbandoned ==
    /\ \/ wrPc = "start"
       \/ wrPc = "payload"
       \/ wrPc = "entry" /\ wrLoop.i < JackalHeader_jackal_blocks_count(WrHeader)
    /\ wrRead' = <<JackalHeader_read_from(wrSink.out, 0)>>
    /\ wrPc' = "abandoned"
    /\ UNCHANGED <<wrTexture, wrSink, wrLoop, wrOps>>
    /\ UNCHANGED notWrVars

NextWriter == WriteHeader \/ WriteEntry \/ WritePayload \/ WriterReturn \/ ReadAbandoned

SpecWriter == InitWriter /\ [][NextWriter]_vars

(***************************************************************************)
(* Bit stream session: a caller makes write_bits requests of widths from 0 *)
(* to the full width of the u128 buffer on a WriteBits over an empty       *)
(* Vec<u8>, calls finish, and then reads the same widths back, in the same *)
(* order, with a ReadBits over the bytes written, each time into a zeroed  *)
(* array as long as the one that was written (bits.rs test_writer,         *)
(* test_reader, test_test).                                                *)
(***************************************************************************)
MaxWrites == 3

\* the requests a caller makes: some with a value below 2^bit_len, one whose
\* array has bits set beyond bit_len, one empty, one of 128 bits
BitRequests ==
    { [buffer |-> <<0>>, bit_len |-> 0],
      [buffer |-> <<1>>, bit_len |-> 1],
      [buffer |-> <<5>>, bit_len |-> 3],
      [buffer |-> <<255>>, bit_len |-> 3],
      [buffer |-> <<255, 1>>, bit_len |-> 9],
      [buffer |-> <<1, 2, 3, 4, 5, 6, 7, 8, 63>>, bit_len |-> 70],
      [buffer |-> <<1, 2, 3, 4, 5, 6, 7, 8, 9, 10, 11, 12, 13, 14, 15, 16>>,
       bit_len |-> 128] }

InitBits ==
    /\ btBuild \in {"debug", "release"}
    /\ btWrites = <<>>
    /\ btWriter = WriteBits_new(<<>>, 0)
    /\ btReader = ReadBits_new(0)
    /\ btReads = <<>>
    /\ btPc = "write"
    /\ IdleExceptBits

\* write.write_bits(data, 0, bit_len).unwrap()
BitsWrite ==
    /\ btPc = "write"
    /\ Len(btWrites) < MaxWrites
    /\ \E q \in BitRequests :
           /\ btWriter' = WriteBits_write_bits(btWriter, q.buffer, 0, q.bit_len)
           /\ btWrites' = Append(btWrites, q)
    /\ UNCHANGED <<btBuild, btReader, btReads, btPc>>
    /\ UNCHANGED notBtVars

\* write.finish().unwrap(); ReadBits::new(&buffer[..])
BitsFinish ==
    /\ btPc = "write"
    /\ btWriter' = WriteBits_finish(btWriter)
    /\ btReader' = ReadBits_new(0)
    /\ btPc' = "read"
    /\ UNCHANGED <<btBuild, btWrites, btReads>>
    /\ UNCHANGED notBtVars

\* read.read_bits(&mut buffer, 0, bit_len).unwrap() for the next request
BitsRead ==
    /\ btPc = "read"
    /\ Len(btReads) < Len(btWrites)
    /\ LET Done(q, res) ==
               IF res.r.overflow /\ btBuild = "debug"
               THEN /\ btPc' = "panic"
                    /\ UNCHANGED <<btReader, btReads>>
               ELSE /\ btReader' = [res.r EXCEPT !.overflow = FALSE]
                    /\ btReads' = Append(btReads, res.dst)
                    /\ UNCHANGED btPc
           Call(q) ==
               Done(q, ReadBits_read_bits(btReader, btWriter.out,
                                          [n \in 1..Len(q.buffer) |-> 0], 0, q.bit_len))
       IN  Call(btWrites[Len(btReads) + 1])
    /\ UNCHANGED <<btBuild, btWrites, btWriter>>
    /\ UNCHANGED notBtVars

NextBits == BitsWrite \/ BitsFinish \/ BitsRead

SpecBits == InitBits /\ [][NextBits]_vars

(***************************************************************************)
(* Claims about the LZW coder.                                             *)
(***************************************************************************)

\* C1: decoding the bytes produced for an input s (empty, or with the
\* self-referencing KwKwK code, included) never fails and returns the symbols
\* of s in order, so that after Len(s) requests the decoded sequence is s.
C1_LzwRoundTrip ==
    lzwLog.kind = "encoded" =>
        /\ lzwPc # "error"
        /\ IsPrefix(decoded, input)
        /\ (lzwPc = "done" /\ Len(decoded) = Len(input) => decoded = input)

\* a finished round trip of an input whose stream holds a KwKwK code
C1_Witness ==
    /\ lzwLog.kind = "encoded"
    /\ lzwPc = "done"
    /\ Len(input) >= 3
    /\ decoded = input
    /\ \E i \in 1..Len(lzwLog.reads) :
          /\ lzwLog.reads[i].had_last
          /\ lzwLog.reads[i].index = T_ENTRIES + lzwLog.reads[i].entries

\* C8: on a proper prefix of a valid stream the decoder returns only a prefix
\* of the original input, and a code that the remaining bytes cannot supply in
\* full ends the decode with an I/O error.
C8_TruncatedPrefixThenIoError ==
    lzwLog.kind = "truncated" =>
        /\ IsPrefix(decoded, input)
        /\ \A i \in 1..Len(lzwLog.reads) :
              lzwLog.reads[i].bits_read < lzwLog.reads[i].bits =>
                  lzwLog.reads[i].err = "Io"

\* C9: a code above the dictionary's size plus one is rejected with
\* InvalidIndex and yields no output, whether or not a code preceded it.
C9_OversizeCodeRejected ==
    \A i \in 1..Len(lzwLog.reads) :
        lzwLog.reads[i].index > T_ENTRIES + lzwLog.reads[i].entries =>
            lzwLog.reads[i].err = "InvalidIndex"

(***************************************************************************)
(* Claims about the bounded Z-order iterator.                              *)
(***************************************************************************)

\* Morton index of (x, y): bits of x at even positions, bits of y at odd ones
RECURSIVE Morton(_, _)
Morton(x, y) ==
    IF x = 0 /\ y = 0 THEN 0
    ELSE (x % 2) + 2 * (y % 2) + 4 * Morton(x \div 2, y \div 2)

\* C3: once BoundZCurve(w, h) has returned None it has yielded w*h items, and
\* every coordinate with x < w and y < h is among them exactly once.
C3_EveryCoordinateOnce ==
    zPc = "done" =>
        /\ Len(zItems) = zcurve.width * zcurve.height
        /\ \A x \in 0..(zcurve.width - 1), y \in 0..(zcurve.height - 1) :
              Cardinality({i \in 1..Len(zItems) : zItems[i] = <<x, y>>}) = 1

\* C4: the items come in strictly increasing Morton index order, none has
\* x >= w or y >= h, and a finished 3x2 iteration has yielded
\* (0,0),(1,0),(0,1),(1,1),(2,0),(2,1).
C4_MortonOrderInBounds ==
    /\ \A i \in 1..Len(zItems) :
          /\ zItems[i][1] < zcurve.width
          /\ zItems[i][2] < zcurve.height
          /\ i > 1 => Morton(zItems[i - 1][1], zItems[i - 1][2])
                          < Morton(zItems[i][1], zItems[i][2])
    /\ (zPc = "done" /\ zcurve.width = 3 /\ zcurve.height = 2) =>
          zItems = << <<0, 0>>, <<1, 0>>, <<0, 1>>, <<1, 1>>, <<2, 0>>, <<2, 1>> >>

\* the finished 3x2 iteration, which skipped index 5 = (3,0) on its way
C4_Witness ==
    /\ zPc = "done"
    /\ zcurve.width = 3
    /\ zcurve.height = 2
    /\ Len(zItems) = 6
    /\ zItems[5] = <<2, 0>>

(***************************************************************************)
(* Claims about BC1 block decode.                                          *)
(***************************************************************************)

\* C10: a decoded block takes every texel from the four-colour palette
\* [color0, 1/3 blend, 2/3 blend, color1] when bits(color0) > bits(color1) and
\* from the three-colour palette with index 3 black when bits(color0) <=
\* bits(color1).
C10_PaletteByGreater ==
    bcPc = "decoded" =>
        \A i \in 0..3, j \in 0..3 :
            bcColors[i][j] =
                (IF bcBlock.color0 > bcBlock.color1
                 THEN Palette4(Rgb565_channels(bcBlock.color0), Rgb565_channels(bcBlock.color1))
                 ELSE Palette3(Rgb565_channels(bcBlock.color0), Rgb565_channels(bcBlock.color1))
                )[Block_texel_index(bcBlock, i, j) + 1]

(***************************************************************************)
(* Claims about the container header.                                      *)
(***************************************************************************)

\* C7: when the first four bytes of the input are not the magic number,
\* read_header (and with it decompress_bc1_texture) fails with InvalidMagic
\* and has asked the reader for the four magic bytes only.
C7_BadMagicIsInvalidMagic ==
    (/\ hdrPc = "read"
     /\ Len(hdrInput) >= 4
     /\ SubSeq(hdrInput, 1, 4)
            # (IF hdrResult[1].gen = "JKL0" THEN MAGIC_VER_0 ELSE MAGIC_NUMBER))
    => /\ hdrResult[1].res.err = "InvalidMagic"
       /\ hdrResult[1].res.read = 4

(***************************************************************************)
(* Claims about the container.                                             *)
(***************************************************************************)

PayloadBytes(file, count, i) ==
    SubSeq(file,
           JackalBlock_read_from(file, JackalHeader_BYTES_SIZE
                                       + JackalBlock_BYTES_SIZE * i).jackal_block.offset + 1,
           IF i + 1 < count
           THEN JackalBlock_read_from(file, JackalHeader_BYTES_SIZE
                                            + JackalBlock_BYTES_SIZE * (i + 1)).jackal_block.offset
           ELSE Len(file))

JkCount == JackalHeader_jackal_blocks_count(compress_texture_header(jkExtent))

\* offset held by index entry i (counted from 0) of a container
IndexEntry(file, i) ==
    JackalBlock_read_from(file, JackalHeader_BYTES_SIZE
                                + JackalBlock_BYTES_SIZE * i).jackal_block.offset

PayloadEnd(file, count, i) ==
    IF i + 1 < count THEN IndexEntry(file, i + 1) ELSE Len(file)

\* C12: in a written container the index entries increase strictly in
\* super-block order, the first payload starts after the index table and the
\* last one ends at the end of the output, so the regions from one entry to
\* the next are non-empty, pairwise disjoint and clear of header and index;
\* and the bytes compress_any_block writes for super-block i from the same
\* grid are exactly the bytes of region i.
C12_PayloadRegions ==
    /\ jkFile # <<>> =>
           /\ IndexEntry(jkFile, 0) >= JackalHeader_BYTES_SIZE + JackalBlock_BYTES_SIZE * JkCount
           /\ \A i \in 0..(JkCount - 1) :
                  IndexEntry(jkFile, i) < PayloadEnd(jkFile, JkCount, i)
    /\ (jkPc = "recompressed" /\ jkAlt[1].blocks = jkBlocks) =>
           /\ jkAlt[1].offset = IndexEntry(jkFile, jkAlt[1].i)
           /\ jkAlt[1].pos = PayloadEnd(jkFile, JkCount, jkAlt[1].i)
           /\ SubSeq(jkAlt[1].out, jkAlt[1].offset + 1, jkAlt[1].pos)
              = SubSeq(jkFile, jkAlt[1].offset + 1, jkAlt[1].pos)

\* the middle super-block of a three-super-block container, written once
\* more from the same grid
C12_Witness ==
    /\ jkPc = "recompressed"
    /\ jkAlt[1].blocks = jkBlocks
    /\ JkCount = 3
    /\ jkAlt[1].i = 1
    /\ IndexEntry(jkFile, 1) > 44

\* raw size of the session's texture
JkRaw == Extent_raw_size(jkExtent)

\* ceil(a / b)
CeilDiv(a, b) == (a + b - 1) \div b

\* C13: the clipped regions of the super-block positions the encoder and the
\* decoder walk number ceil(w/fw) * ceil(h/fh) * d, every region is non-empty
\* and lies inside the grid (an edge region stops at the grid's width and
\* height), two different regions share no block, and together they hold
\* every block index of the grid; the decoder reads one index entry per region.
C13_RegionsPartitionGrid ==
    /\ JkCount = CeilDiv(JkRaw[1], FootprintEdge) * CeilDiv(JkRaw[2], FootprintEdge) * JkRaw[3]
    /\ \A i \in 0..(JkCount - 1) :
           /\ JkRegion(i).x_start < JkRegion(i).x_end
           /\ JkRegion(i).x_end <= JkRaw[1]
           /\ JkRegion(i).x_end - JkRegion(i).x_start <= FootprintEdge
           /\ JkRegion(i).y_start < JkRegion(i).y_end
           /\ JkRegion(i).y_end <= JkRaw[2]
           /\ JkRegion(i).y_end - JkRegion(i).y_start <= FootprintEdge
           /\ JkRegion(i).z < JkRaw[3]
    /\ \A i, j \in 0..(JkCount - 1) :
           i # j => RegionIndices(JkRaw, JkRegion(i)) \cap RegionIndices(JkRaw, JkRegion(j)) = {}
    /\ UNION {RegionIndices(JkRaw, JkRegion(i)) : i \in 0..(JkCount - 1)}
       = 0..(JkRaw[1] * JkRaw[2] * JkRaw[3] - 1)
    /\ jkPc = "index" => Len(jkIndex) = JkCount

\* a written texture three blocks wide: the second super-block is clipped to
\* the one block that exists
C13_Witness ==
    /\ jkPc = "file"
    /\ JkRaw[1] = FootprintEdge + 1
    /\ JkCount = 2
    /\ JkRegion(1).x_end - JkRegion(1).x_start = 1

(***************************************************************************)
(* Claims about header validation.                                         *)
(***************************************************************************)
\* the rule a raw_size triple has to satisfy for its dimensions
ExtentRule(dimensions, s) ==
    /\ dimensions = "D1" => (s[2] = 1 /\ s[3] = 1)
    /\ dimensions = "D2" => s[3] = 1
    /\ dimensions = "D1Array" => s[3] = 1

\* three little-endian u32 starting at byte first (counted from 1)
TripleAt(bytes, first) ==
    <<u32_from_le_bytes(SubSeq(bytes, first, first + 3)),
      u32_from_le_bytes(SubSeq(bytes, first + 4, first + 7)),
      u32_from_le_bytes(SubSeq(bytes, first + 8, first + 11))>>

\* the input is a whole JKL0 header with the right magic and a configuration
\* word that decodes
Jkl0Configured ==
    /\ Len(hdrInput) >= JackalHeader_BYTES_SIZE
    /\ SubSeq(hdrInput, 1, 4) = MAGIC_VER_0
    /\ Config_decode(u32_from_le_bytes(SubSeq(hdrInput, 5, 8))).err = "none"

\* the input is a whole JKLI header with the right magic and fields in range
JkliConfigured ==
    /\ Len(hdrInput) >= 24
    /\ SubSeq(hdrInput, 1, 4) = MAGIC_NUMBER
    /\ u16_from_le_bytes(SubSeq(hdrInput, 5, 6)) # 0
    /\ u16_from_le_bytes(SubSeq(hdrInput, 7, 8)) <= 5
    /\ hdrInput[9] < 16 /\ hdrInput[10] < 16
    /\ u16_from_le_bytes(SubSeq(hdrInput, 11, 12)) <= 4

\* the result accepts the header with an extent of the given dimensions whose
\* raw size is s
AcceptedWith(res, dimensions, s) ==
    /\ res.err = "none"
    /\ res.header # <<>>
    /\ res.header[1].extent.dimensions = dimensions
    /\ Extent_raw_size(res.header[1].extent) = s

ConfigWord == u32_from_le_bytes(SubSeq(hdrInput, 5, 8))

\* C15: the configuration word is read as format (radix 10), footprint id
\* (radix 25), dimensions (radix 5) and mip levels (radix 30) from the least
\* significant digit up; a format digit of 6 or more is UnsupportedFormat, and
\* a word with all four digits in range is accepted with exactly those field
\* values, so encoding the decoded configuration gives the word back.
C15_ConfigDigitsDecoded ==
    (/\ hdrPc = "read"
     /\ hdrResult[1].gen = "JKL0"
     /\ Len(hdrInput) >= JackalHeader_BYTES_SIZE
     /\ SubSeq(hdrInput, 1, 4) = MAGIC_VER_0)
    => /\ ConfigWord % Format_COUNT >= 6 => hdrResult[1].res.err = "UnsupportedFormat"
       /\ (/\ ConfigWord % Format_COUNT < 6
           /\ ConfigWord \div (Format_COUNT * Footprint_COUNT * Dimensions_COUNT)
                  < MipLevels_COUNT
           /\ ExtentRule(DimensionsNames[
                             ((ConfigWord \div (Format_COUNT * Footprint_COUNT))
                                  % Dimensions_COUNT) + 1],
                         TripleAt(hdrInput, 9)))
          => /\ hdrResult[1].res.err = "none"
             /\ hdrResult[1].res.header # <<>>
             /\ Format_encode(hdrResult[1].res.header[1].format) = ConfigWord % Format_COUNT
             /\ Footprint_encode(hdrResult[1].res.header[1].footprint)
                    = (ConfigWord \div Format_COUNT) % Footprint_COUNT
             /\ Dimensions_encode(hdrResult[1].res.header[1].extent.dimensions)
                    = (ConfigWord \div (Format_COUNT * Footprint_COUNT)) % Dimensions_COUNT
             /\ hdrResult[1].res.header[1].levels
                    = ConfigWord \div (Format_COUNT * Footprint_COUNT * Dimensions_COUNT)
             /\ Config_encode([levels |-> hdrResult[1].res.header[1].levels,
                               dimensions |-> hdrResult[1].res.header[1].extent.dimensions,
                               footprint |-> hdrResult[1].res.header[1].footprint,
                               format |-> hdrResult[1].res.header[1].format])
                    = ConfigWord

(***************************************************************************)
(* Claims about the order of the writer's stream operations.               *)
(***************************************************************************)

\* C16: when compress_texture is dropped after a proper prefix of its write
\* and seek operations, read_header over the bytes written so far fails; no
\* partial output is accepted by the header parser.
C16_PartialOutputRejected ==
    wrPc = "abandoned" =>
        /\ wrRead[1].err # "none"
        /\ wrRead[1].header = <<>>

\* C17: every write to the index table comes after the last payload write.
C17_IndexAfterAllPayloads ==
    \A a, b \in 1..Len(wrOps) :
        (/\ wrOps[a].op = "write" /\ wrOps[a].what = "entry"
         /\ wrOps[b].op = "write" /\ wrOps[b].what = "payload")
        => b < a

(***************************************************************************)
(* Claims about the traversal inside a super-block.                        *)
(***************************************************************************)

\* C18: the k-th block the encoder and the decoder visit in a clipped region
\* is the k-th coordinate BoundZCurve yields for the region's width and
\* height.
C18_VisitsInZOrder ==
    \A k \in 1..Min2(Len(zVisited), Len(zItems)) : zVisited[k] = zItems[k]

(***************************************************************************)
(* Claims about the symbol stream of a super-block.                        *)
(***************************************************************************)
\* the eight bytes of a block as they lie in memory
RawBlockBytes(block) ==
    <<block.color0 % 256, block.color0 \div 256,
      block.color1 % 256, block.color1 \div 256>> \o block.texels

\* the raw bytes of the blocks of region g in traversal order, from block k on
RECURSIVE RawRegionBytes(_, _, _, _)
RawRegionBytes(g, raw_size, blocks, k) ==
    IF k >= (g.x_end - g.x_start) * (g.y_end - g.y_start) THEN <<>>
    ELSE RawBlockBytes(blocks[aspect_loop_coord(g, k)[1]
                              + aspect_loop_coord(g, k)[2] * raw_size[1]
                              + g.z * raw_size[1] * raw_size[2] + 1])
         \o RawRegionBytes(g, raw_size, blocks, k + 1)

\* C19: the symbols a super-block's encoder is given are the eight raw bytes
\* of each of its blocks (color0 low, high, color1 low, high, texels 0..3),
\* block after block in traversal order.
C19_SymbolsAreRawBlockBytes ==
    jkPc = "file" =>
        \A i \in 0..(JkCount - 1) :
            compress_any_block_symbols(JkRegion(i), JkRaw, jkBlocks, jkModel)
                = RawRegionBytes(JkRegion(i), JkRaw, jkBlocks, 0)

(***************************************************************************)
(* Claims about Block::encode.                                             *)
(***************************************************************************)
\* the tile handed to Block::encode has sixteen identical texels
UniformTile ==
    /\ bcTile # <<>>
    /\ \A i \in 0..3, j \in 0..3 : bcTile[i][j] = bcTile[0][0]

\* C20: a tile of sixteen identical texels encodes to a block with
\* color0 = color1 and four zero texel bytes, and that block decodes to
\* sixteen texels equal to the unpacked color0.
C20_UniformTileEncoding ==
    UniformTile =>
        /\ bcPc \in {"block", "decoded"} =>
               /\ bcBlock.color0 = bcBlock.color1
               /\ bcBlock.texels = <<0, 0, 0, 0>>
        /\ bcPc = "decoded" =>
               \A i \in 0..3, j \in 0..3 :
                   bcColors[i][j] = [k \in 1..3 |-> 6 * Rgb565_channels(bcBlock.color0)[k]]

\* the mid-grey tile (1/2, 1/2, 1/2) encoded to endpoints (15, 31, 15) and
\* decoded again
C20_Witness ==
    /\ bcPc = "decoded"
    /\ UniformTile
    /\ bcTile[0][0] = <<2, 2, 2>>
    /\ bcBlock.color0 = 15 * 2048 + 31 * 32 + 15
    /\ bcColors[3][3] = <<90, 186, 90>>

(***************************************************************************)
(* Claims about the byte form of blocks.                                   *)
(***************************************************************************)

\* C21: Block::bytes stores color0 little-endian in bytes 0-1, color1
\* little-endian in bytes 2-3 and the texel rows in bytes 4-7, each endpoint
\* comes back from its two bytes, and Block::from_bytes gives the block back.
C21_BytesRoundTrip ==
    /\ bcPc \in {"bytes", "restored"} =>
           /\ Len(bcBytes) = 8
           /\ bcBytes[1] + 256 * bcBytes[2] = bcBlock.color0
           /\ bcBytes[3] + 256 * bcBytes[4] = bcBlock.color1
           /\ SubSeq(bcBytes, 5, 8) = bcBlock.texels
           /\ \A n \in 1..8 : bcBytes[n] \in 0..255
           /\ Rgb565_from_bytes(Rgb565_bytes(bcBlock.color0)) = bcBlock.color0
           /\ Rgb565_from_bytes(Rgb565_bytes(bcBlock.color1)) = bcBlock.color1
    /\ bcPc = "restored" => bcRestored = <<bcBlock>>

\* the block with endpoints 0x07E0 and 0xF800 and mixed texel rows went
\* through bytes and from_bytes
C21_Witness ==
    /\ bcPc = "restored"
    /\ bcBlock = [color0 |-> 2016, color1 |-> 63488, texels |-> <<228, 27, 85, 170>>]
    /\ bcBytes = <<224, 7, 0, 248, 228, 27, 85, 170>>
    /\ bcRestored = <<bcBlock>>

(***************************************************************************)
(* Claims about the bit writer and the bit reader.                         *)
(***************************************************************************)
\* bit i (counted from 0) of a byte string, least significant bit first
BitAt(bytes, i) == (bytes[(i \div 8) + 1] \div (2 ^ (i % 8))) % 2

\* the bits a request asks to write: the low bit_len bits of its array
RequestBits(q) == [i \in 1..q.bit_len |-> BitAt(q.buffer, i - 1)]

\* the bits of all requests, in the order the requests were made
RECURSIVE RequestedBits(_)
RequestedBits(ws) ==
    IF ws = <<>> THEN <<>>
    ELSE RequestedBits(SubSeq(ws, 1, Len(ws) - 1)) \o RequestBits(ws[Len(ws)])

\* C22: after bit writes totalling n bits and finish, the sink holds exactly
\* ceil(n/8) bytes, every bit of the last byte beyond the n-th bit is zero,
\* nothing is left in the writer's buffer and the sink's cursor stands at
\* the end of the last byte, so the next payload starts on a byte boundary.
C22_FinishPadsToByte ==
    btPc \in {"read", "panic"} =>
        LET n == Len(RequestedBits(btWrites))
        IN  /\ Len(btWriter.out) = (n + 7) \div 8
            /\ \A i \in n..(8 * Len(btWriter.out) - 1) : BitAt(btWriter.out, i) = 0
            /\ btWriter.buffer_len = 0
            /\ btWriter.pos = Len(btWriter.out)

C22_Witness ==
    /\ btPc = "read"
    /\ btWrites = << [buffer |-> <<1, 2, 3, 4, 5, 6, 7, 8, 63>>, bit_len |-> 70],
                     [buffer |-> <<1, 2, 3, 4, 5, 6, 7, 8, 63>>, bit_len |-> 70],
                     [buffer |-> <<255>>, bit_len |-> 3] >>
    /\ Len(btWriter.out) = 18
    /\ btWriter.out[18] = 127


\* the array a read of q's width must fill: q's bits, zero above them
MaskedRequest(q) ==
    [n \in 1..Len(q.buffer) |->
        ValOf([b \in 1..8 |-> IF 8 * (n - 1) + b <= q.bit_len
                              THEN BitAt(q.buffer, 8 * (n - 1) + b - 1) ELSE 0])]

\* what holds of every stream that was written and read back without a panic
BitsLsbFirstLossless ==
    /\ btPc \in {"read", "panic"} =>
           \A i \in 1..Len(RequestedBits(btWrites)) :
               BitAt(btWriter.out, i - 1) = RequestedBits(btWrites)[i]
    /\ \A k \in 1..Len(btReads) : btReads[k] = MaskedRequest(btWrites[k])

\* C27: bit packing is LSB-first and lossless: the i-th bit written is bit
\* (i mod 8) of output byte (i div 8), and reading the same widths in the
\* same order returns the values written, for every sequence of requests.
C27_BitsRoundTrip ==
    /\ btPc # "panic"
    /\ BitsLsbFirstLossless


(***************************************************************************)
(* Claims about the writer's result on sinks that do not store everything. *)
(***************************************************************************)
\* C23: for a grid that matches its extent, compress_bc1_texture returns
\* Ok(()) only with the complete container in the sink (the bytes it writes
\* into a Vec<u8>), and otherwise returns an I/O error of the sink; it never
\* returns Ok(()) when the sink stored fewer bytes than it was given.
C23_SuccessMeansComplete ==
    /\ wrPc = "done" =>
           wrSink.out = compress_texture(wrTexture.extent, wrTexture.blocks, wrTexture.m)
    /\ wrPc = "failed" => wrSink.err \in {"Io", "WriteZero"}


(***************************************************************************)
(* Claims about codeword widths and the dictionaries of the LZW coder.     *)
(***************************************************************************)
\* the least b with 2^b >= n
RECURSIVE CeilLog2From(_, _)
CeilLog2From(n, b) == IF 2 ^ b >= n THEN b ELSE CeilLog2From(n, b + 1)

CeilLog2(n) == CeilLog2From(n, 0)

\* next_code when the k-th codeword of a stream is emitted: every emit of
\* encode inserts one entry after writing, so k - 1 entries are held
NextCodeAt(k) == T_ENTRIES + (k - 1)

\* C24 as stated: every codeword is written with ceil(log2(next_code + 1))
\* bits, next_code being 256 plus the number of dictionary entries at the
\* emit; the first codeword of a non-empty stream is written with 9 bits.
C24_WidthOfNextCodePlusOne ==
    lzwLog.kind = "encoded" =>
        /\ \A k \in 1..Len(lzwLog.codes) :
               lzwLog.codes[k].bits = CeilLog2(NextCodeAt(k) + 1)
        /\ Len(lzwLog.codes) >= 1 => lzwLog.codes[1].bits = 9

\* C24 (amended): every codeword is written with ceil(log2(next_code)) bits,
\* the least width that holds every code below next_code; the first
\* codeword of a non-empty stream is written with 8 bits, and the codewords
\* after it with 9 bits while next_code is at most 512.
C24_WidthOfNextCode ==
    lzwLog.kind = "encoded" =>
        /\ lzwPc = "encode" => Len(encoder.entries) = Len(lzwLog.codes)
        /\ \A k \in 1..Len(lzwLog.codes) :
               lzwLog.codes[k].bits = CeilLog2(NextCodeAt(k))
        /\ Len(lzwLog.codes) >= 1 => lzwLog.codes[1].bits = 8
        /\ \A k \in 2..Len(lzwLog.codes) :
               NextCodeAt(k) <= 2 * T_ENTRIES => lzwLog.codes[k].bits = 9

C24_Witness ==
    /\ lzwLog.kind = "encoded"
    /\ input = <<1, 0>>
    /\ lzwLog.codes = <<[index |-> 1, bits |-> 8], [index |-> 0, bits |-> 9]>>
    /\ compressed = <<1, 0, 0>>


\* C25: the encoder never emits a code greater than or equal to next_code
\* (256 plus the number of entries it holds at the emit), so every emitted
\* code fits in the width used to write it.
C25_CodesBelowNextCode ==
    lzwLog.kind = "encoded" =>
        \A k \in 1..Len(lzwLog.codes) :
            /\ lzwLog.codes[k].index >= 0
            /\ lzwLog.codes[k].index < NextCodeAt(k)
            /\ lzwLog.codes[k].index < 2 ^ lzwLog.codes[k].bits

\* the last code of <<1, 1, 1>> is the entry inserted just before it
C25_Witness ==
    /\ lzwLog.kind = "encoded"
    /\ input = <<1, 1, 1>>
    /\ lzwPc = "decode"
    /\ lzwLog.codes = <<[index |-> 1, bits |-> 8], [index |-> 256, bits |-> 9]>>


\* the byte string a code of the encoder's dictionary stands for
RECURSIVE EncoderExpand(_, _)
EncoderExpand(e, code) ==
    IF code < T_ENTRIES THEN <<code>>
    ELSE EncoderExpand(e, e.entries[code - T_ENTRIES + 1].prefix)
         \o <<e.entries[code - T_ENTRIES + 1].element>>

\* the byte string entry i (counted from 0) of the decoder stands for
DecoderExpand(d, i) == SubSeq(d.scratch, d.entries[i + 1][1] + 1, d.entries[i + 1][2])

\* C26: the decoder rebuilds the encoder's dictionary: after the first k
\* codewords of a valid stream (k >= 1) it holds exactly k-1 entries, entry
\* i expands to the byte string of the encoder's code 256+i, and a code
\* equal to 256 plus the decoder's entry count (KwKwK) yields the previous
\* output followed by its own first byte.
C26_DecoderRebuildsDictionary ==
    (lzwLog.kind = "encoded" /\ Len(lzwLog.reads) >= 1) =>
        /\ Len(decoder.entries) = Len(lzwLog.reads) - 1
        /\ Len(decoder.entries) <= Len(encoder.entries)
        /\ \A i \in 0..(Len(decoder.entries) - 1) :
               DecoderExpand(decoder, i) = EncoderExpand(encoder, T_ENTRIES + i)
        /\ \A k \in 2..Len(lzwLog.reads) :
               lzwLog.reads[k].index = T_ENTRIES + lzwLog.reads[k].entries =>
                   DecoderExpand(decoder, lzwLog.reads[k].entries)
                   = EncoderExpand(encoder, lzwLog.reads[k - 1].index)
                     \o <<EncoderExpand(encoder, lzwLog.reads[k - 1].index)[1]>>
        /\ LET Last(rec) ==
                   decoder.last
                   = <<IF rec.index < T_ENTRIES THEN OutElement(rec.index)
                       ELSE OutRange(decoder.entries[rec.index - T_ENTRIES + 1][1],
                                     decoder.entries[rec.index - T_ENTRIES + 1][2])>>
           IN  Last(lzwLog.reads[Len(lzwLog.reads)])

\* <<1, 1, 1>> is coded 1, 256: the decoder reads 256 while it holds no entry
C26_Witness ==
    /\ lzwLog.kind = "encoded"
    /\ input = <<1, 1, 1>>
    /\ Len(lzwLog.reads) = 2
    /\ lzwLog.reads[2].index = 256
    /\ lzwLog.reads[2].entries = 0
    /\ decoder.entries = <<<<0, 2>>>>
    /\ decoder.scratch = <<1, 1>>


(***************************************************************************)
(* Claims about the position of a super-block in the index.                *)
(***************************************************************************)
\* super-block counts along the three raw axes of the session's texture
JkGridExtent == JackalHeader_jackal_blocks_extent(compress_texture_header(jkExtent))

\* the bytes compress_any_block writes at offset for the super-block at
\* super_pos of the session's texture
JkPayloadAt(super_pos, offset) ==
    LET Bytes(w) == SubSeq(w.out, offset + 1, w.pos)
    IN  Bytes(compress_any_block(
                  SuperBlockRegion(Extent_raw_size(jkExtent), Footprint_from_size(0, 0),
                                   super_pos),
                  Extent_raw_size(jkExtent), jkBlocks, jkModel,
                  [out |-> <<>>, pos |-> offset, replies |-> <<>>]))

\* C28: the index entry of the super-block at super-block coordinates
\* (x, y, z) is stored at index position x + y*X + z*X*Y, X and Y being the
\* super-block counts along the first two axes: that iteration of the
\* writer's loops is the one that starts at block (x, y) * footprint of
\* slice z, the entry at that position points at the payload of that
\* region, and the reader looks the super-block up at the same position.
C28_IndexPosition ==
    jkFile # <<>> =>
        LET Starts(starts) ==
                /\ Len(starts) = JkCount
                /\ \A x \in 0..(JkGridExtent[1] - 1), y \in 0..(JkGridExtent[2] - 1),
                      z \in 0..(JkGridExtent[3] - 1) :
                       LET At(p) ==
                               /\ starts[p + 1] = <<x * FootprintEdge, y * FootprintEdge, z>>
                               /\ jackal_block_index(JkGridExtent, <<x, y, z>>) = p
                               /\ jkPc = "file" =>
                                      PayloadBytes(jkFile, JkCount, p)
                                      = JkPayloadAt(<<x, y, z>>, IndexEntry(jkFile, p))
                               /\ jkPc = "index" =>
                                      jkIndex[jackal_block_index(JkGridExtent, <<x, y, z>>) + 1]
                                          .offset = IndexEntry(jkFile, p)
                       IN  At(x + y * JkGridExtent[1] + z * JkGridExtent[1] * JkGridExtent[2])
        IN  Starts(compress_texture_starts(Extent_raw_size(jkExtent),
                                           Footprint_from_size(0, 0), 0, 0, 0))

\* a 3 x 3 grid: four super-blocks, the one at (1, 1, 0) at position 3
C28_Witness ==
    /\ jkPc = "index"
    /\ jkExtent = Extent_new("D2", 3, 3, 1, 1)
    /\ JkGridExtent = <<2, 2, 1>>
    /\ Len(jkIndex) = 4
    /\ jkIndex[4].offset = IndexEntry(jkFile, 3)
    /\ jkIndex[4].offset > jkIndex[3].offset


(***************************************************************************)
(* cluster_fit.rs: the cluster fit for scalar samples (impl Sample for     *)
(* f32).  An f32 is modelled by the exact rational <<n, d>>, d > 0, in     *)
(* lowest terms; rounding is not modelled.  The two closures of the call   *)
(* are drawn from the small sets RemapKinds and ErrorKinds.                *)
(***************************************************************************)
RECURSIVE Gcd(_, _)
Gcd(a, b) == IF b = 0 THEN a ELSE Gcd(b, a % b)

AbsInt(n) == IF n < 0 THEN 0 - n ELSE n

\* the rational n / d, d # 0, in lowest terms with a positive denominator
Ratio(n, d) ==
    LET g == Gcd(AbsInt(n), AbsInt(d))
        s == IF d < 0 THEN 0 - 1 ELSE 1
    IN  <<(s * n) \div g, (s * d) \div g>>

RatAdd(a, b) == Ratio(a[1] * b[2] + b[1] * a[2], a[2] * b[2])

RatSub(a, b) == Ratio(a[1] * b[2] - b[1] * a[2], a[2] * b[2])

RatLess(a, b) == a[1] * b[2] < b[1] * a[2]

RatAbs(a) == <<AbsInt(a[1]), a[2]>>

RECURSIVE RatSumTo(_, _)
RatSumTo(f, n) == IF n = 0 THEN <<0, 1>> ELSE RatAdd(RatSumTo(f, n - 1), f[n])

\* Sample::fallback_endpoints for f32: (min, max) of the samples
Sample_fallback_endpoints(samples) ==
    LET vals == {samples[i] : i \in 1..Len(samples)}
    IN  <<Ratio(CHOOSE v \in vals : \A o \in vals : v <= o, 1),
          Ratio(CHOOSE v \in vals : \A o \in vals : v >= o, 1)>>

\* order[..samples.len()] after sort_unstable_by on the projection: the
\* sample indices (1-based) by ascending value.  Equal samples are
\* interchangeable in everything cluster_fit computes from the order, so
\* the unspecified order among them is fixed as ascending index.
cluster_fit_order(samples) ==
    LET S == Len(samples)
    IN  CHOOSE p \in [1..S -> 1..S] :
            \A a, b \in 1..S :
                a < b => \/ samples[p[a]] < samples[p[b]]
                         \/ samples[p[a]] = samples[p[b]] /\ p[a] < p[b]

\* the closure remap_endpoints of the call
remap_endpoints(kind, c0, c1) ==
    IF kind = "descending" /\ RatLess(c0, c1) THEN <<c1, c0>> ELSE <<c0, c1>>

\* the closure error of the call: "abs" is |a - b|, "diff" is a - b
\* (R32F::distance, the closure bc4.rs passes)
error_closure(kind, a, b) ==
    IF kind = "abs" THEN RatAbs(RatSub(a, b)) ELSE RatSub(a, b)

\* build_palette::<T, I>(c0, c1): palette[i] for i in 0..I, 1-based here
build_palette(c0, c1, I) ==
    [i \in 1..I |->
        IF i = 1 THEN c0
        ELSE IF i = I THEN c1
        ELSE LET t == i - 1
                 k == I - 1
             IN  Ratio((k - t) * c0[1] * c1[2] + t * c1[1] * c0[2],
                       k * c0[2] * c1[2])]

\* index_error: (best_index, best_error); the scan keeps the first palette
\* entry whose error is strictly below every earlier one.  Every error of
\* the model is below the initial f32::MAX.
index_error(sample, palette, kind) ==
    LET I == Len(palette)
        e == [i \in 1..I |-> error_closure(kind, Ratio(sample, 1), palette[i])]
        best == CHOOSE i \in 1..I :
                    /\ \A j \in 1..I : ~RatLess(e[j], e[i])
                    /\ \A j \in 1..(i - 1) : RatLess(e[i], e[j])
    IN  [index |-> best - 1, error |-> e[best]]

\* the loop `for i in 0..samples.len()` that fills indices and sums the
\* error of one palette (cluster_fit.rs lines 100-104 and 132-136)
cluster_fit_score(samples, palette, kind) ==
    LET S == Len(samples)
        ie == [i \in 1..S |-> index_error(samples[i], palette, kind)]
    IN  [indices |-> [i \in 1..S |-> ie[i].index],
         error |-> RatSumTo([i \in 1..S |-> ie[i].error], S)]

\* the seed: fallback endpoints, remapped, scored
cluster_fit_seed(in) ==
    LET fb == Sample_fallback_endpoints(in.samples)
        ep == remap_endpoints(in.remap, fb[1], fb[2])
        sc == cluster_fit_score(in.samples, build_palette(ep[1], ep[2], in.I), in.error)
    IN  [endpoints |-> ep, indices |-> sc.indices, error |-> sc.error]

\* `let mut cuts = [0; I]; for i in 1..I { cuts[i] = i - 1; }`
cluster_fit_first_cuts(I) == [j \in 1..(I - 1) |-> j - 1]

\* the cluster index of every sample under the cuts: the sample at sorted
\* position i (0-based) gets the number of cuts c with i > c
cluster_fit_clusters(samples, cuts) ==
    LET S == Len(samples)
        order == cluster_fit_order(samples)
        pos(s) == CHOOSE i \in 1..S : order[i] = s
    IN  [s \in 1..S |->
            Cardinality({j \in 1..Len(cuts) : pos(s) - 1 > cuts[j]})]

\* solve_endpoints with weights idx / k: every sum is carried as an
\* integer (A = An / k^2, X = Xn / k, D = Dn / k^4).  |D| < 1e-8 is
\* Dn = 0, because a non-zero Dn gives |D| >= 1 / k^4.
solve_endpoints(idx, samples, k) ==
    LET S == Len(samples)
        An == SumTo([i \in 1..S |-> (k - idx[i]) * (k - idx[i])], S)
        Bn == SumTo([i \in 1..S |-> (k - idx[i]) * idx[i]], S)
        Cn == SumTo([i \in 1..S |-> idx[i] * idx[i]], S)
        Xn == SumTo([i \in 1..S |-> samples[i] * (k - idx[i])], S)
        Yn == SumTo([i \in 1..S |-> samples[i] * idx[i]], S)
        Dn == An * Cn - Bn * Bn
    IN  IF Dn = 0
        THEN [some |-> FALSE, c0 |-> <<0, 1>>, c1 |-> <<0, 1>>]
        ELSE [some |-> TRUE,
              c0 |-> Ratio(k * (Xn * Cn - Yn * Bn), Dn),
              c1 |-> Ratio(k * (Yn * An - Xn * Bn), Dn)]

\* the loop body for one cut vector: the candidate it evaluates, if any
cluster_fit_body(in, cuts) ==
    LET idx == cluster_fit_clusters(in.samples, cuts)
        se == solve_endpoints(idx, in.samples, in.I - 1)
        ep == remap_endpoints(in.remap, se.c0, se.c1)
        sc == cluster_fit_score(in.samples, build_palette(ep[1], ep[2], in.I), in.error)
    IN  IF se.some
        THEN [cuts |-> cuts, solved |-> TRUE, endpoints |-> ep,
              indices |-> sc.indices, error |-> sc.error]
        ELSE [cuts |-> cuts, solved |-> FALSE, endpoints |-> <<>>,
              indices |-> <<>>, error |-> <<0, 1>>]

cluster_fit_improves_OrEqual(best_error, total_error) ==
    ~RatLess(best_error, total_error)

\* `if best_error > total_error`
cluster_fit_improves(best_error, total_error) ==
    RatLess(total_error, best_error)

\* cuts[i] += 1; for j in i + 1..I { cuts[j] = cuts[j - 1] + 1; }
cluster_fit_advance(cuts, i) ==
    [j \in 1..Len(cuts) |-> IF j < i THEN cuts[j] ELSE cuts[i] + 1 + (j - i)]

RECURSIVE cluster_fit_increment(_, _, _, _, _)
\* the loop increment `for i in (1..I).rev()`, from index i downwards:
\* "next" with the advanced cuts, "break" when no cut can advance.
\* `samples.len() - (I - i)` is a usize subtraction: when S < I - i it
\* panics with overflow checks, and wraps to 2^64 - (I - i - S) without
\* them, which is above every cut the search can reach.
cluster_fit_increment(cuts, S, I, build, i) ==
    IF i < 1 THEN [kind |-> "break", cuts |-> cuts]
    ELSE IF S < I - i
    THEN IF build = "debug"
         THEN [kind |-> "panic", cuts |-> cuts]
         ELSE [kind |-> "next", cuts |-> cluster_fit_advance(cuts, i)]
    ELSE IF cuts[i] < S - (I - i)
    THEN [kind |-> "next", cuts |-> cluster_fit_advance(cuts, i)]
    ELSE cluster_fit_increment(cuts, S, I, build, i - 1)

(***************************************************************************)
(* The cluster-fit session: one call of cluster_fit, the seed first and    *)
(* then one step per iteration of the loop 'a.                             *)
(***************************************************************************)
MaxSamples == 4

MaxCandidates == 8

SampleValues == {0, 1, 2}

PaletteSizes == {2, 3, 4}

RemapKinds == {"identity", "descending"}

ErrorKinds == {"abs", "diff"}

SampleLists == UNION {[1..n -> SampleValues] : n \in 1..MaxSamples}

InitClusterFit ==
    /\ IdleExceptClusterFit
    /\ cfBuild \in {"debug", "release"}
    /\ cfInput \in [samples : SampleLists, I : PaletteSizes,
                    remap : RemapKinds, error : ErrorKinds]
    /\ cfCuts = <<>>
    /\ cfBest = [endpoints |-> <<>>, indices |-> <<>>, error |-> <<0, 1>>]
    /\ cfLog = <<>>
    /\ cfPc = "seed"

\* cluster_fit up to the loop: the seed becomes the best, the cuts start
CfSeed ==
    /\ cfPc = "seed"
    /\ cfBest' = cluster_fit_seed(cfInput)
    /\ cfCuts' = cluster_fit_first_cuts(cfInput.I)
    /\ cfPc' = "search"
    /\ UNCHANGED <<cfBuild, cfInput, cfLog>>
    /\ UNCHANGED notCfVars

\* one iteration of the loop: body, then increment
CfIterate ==
    /\ cfPc = "search"
    /\ Len(cfLog) < MaxCandidates
    /\ LET cand == cluster_fit_body(cfInput, cfCuts)
           inc == cluster_fit_increment(cfCuts, Len(cfInput.samples), cfInput.I,
                                        cfBuild, cfInput.I - 1)
       IN  /\ cfLog' = Append(cfLog, cand)
           /\ cfBest' = IF cand.solved /\ cluster_fit_improves(cfBest.error, cand.error)
                        THEN [endpoints |-> cand.endpoints, indices |-> cand.indices,
                              error |-> cand.error]
                        ELSE cfBest
           /\ cfCuts' = inc.cuts
           /\ cfPc' = CASE inc.kind = "next" -> "search"
                        [] inc.kind = "break" -> "done"
                        [] OTHER -> "panic"
    /\ UNCHANGED <<cfBuild, cfInput>>
    /\ UNCHANGED notCfVars

NextClusterFit ==
    \/ CfSeed
    \/ CfIterate

SpecClusterFit == InitClusterFit /\ [][NextClusterFit]_vars


(***************************************************************************)
(* Claims about the cluster fit                                            *)
(***************************************************************************)
\* the cut vectors cuts[1..I] over sorted positions 0..hi: strictly
\* increasing, every cut at most hi
CutVectors(I, hi) ==
    {c \in [1..(I - 1) -> 0..hi] : \A a, b \in 1..(I - 1) : a < b => c[a] < c[b]}

\* the partitions of S sorted samples into I contiguous non-empty clusters:
\* cluster 0 is positions 0..cuts[1], the last one is positions above
\* cuts[I - 1], so the last cut is at most S - 2
NonEmptyPartitions(S, I) == IF S < 2 THEN {} ELSE CutVectors(I, S - 2)

\* the cut vectors of the candidates evaluated so far (solve_endpoints
\* returned endpoints and the palette was scored)
EvaluatedCuts == {cfLog[n].cuts : n \in {m \in 1..Len(cfLog) : cfLog[m].solved}}

\* what the loop visits when S >= I - 1: every strictly increasing cut
\* vector with cuts[i] <= S - (I - i), in lexicographic order, each once
VisitsBoundedCuts ==
    LET S == Len(cfInput.samples)
        I == cfInput.I
        Bounded == {c \in CutVectors(I, S - 1) :
                        \A i \in 1..(I - 1) : c[i] <= S - (I - i)}
    IN  (cfPc \in {"search", "done"} /\ S >= I - 1) =>
            /\ \A n \in 1..Len(cfLog) : cfLog[n].cuts \in Bounded
            /\ \A n, m \in 1..Len(cfLog) : n # m => cfLog[n].cuts # cfLog[m].cuts
            /\ cfPc = "done" => {cfLog[n].cuts : n \in 1..Len(cfLog)} = Bounded

\* C29: the search evaluates every partition of the S sorted samples into
\* I contiguous non-empty clusters, each exactly once, evaluates no
\* partition with an empty cluster, and stops after finitely many
\* candidates (at most one more than there are cut vectors over the sorted
\* positions), also when S < I.
C29_EnumeratesNonEmptyPartitions ==
    LET S == Len(cfInput.samples)
        I == cfInput.I
    IN  /\ cfPc # "panic"
        /\ Len(cfLog) <= Cardinality(CutVectors(I, S - 1)) + 1
        /\ EvaluatedCuts \subseteq NonEmptyPartitions(S, I)
        /\ \A n, m \in 1..Len(cfLog) :
               (n # m /\ cfLog[n].solved /\ cfLog[m].solved)
                   => cfLog[n].cuts # cfLog[m].cuts
        /\ cfPc = "done" => NonEmptyPartitions(S, I) \subseteq EvaluatedCuts

\* the part of C29 that holds: every non-empty partition is evaluated,
\* and no cut vector is visited twice, whenever the search ends
C29_NonEmptyPartitionsCovered ==
    LET S == Len(cfInput.samples)
        I == cfInput.I
    IN  /\ \A n, m \in 1..Len(cfLog) : n # m => cfLog[n].cuts # cfLog[m].cuts
        /\ cfPc = "done" => NonEmptyPartitions(S, I) \subseteq EvaluatedCuts

\* an evaluated candidate whose last cluster is empty
C29_EmptyClusterEvaluated ==
    \E n \in 1..Len(cfLog) :
        /\ cfLog[n].solved
        /\ cfLog[n].cuts[cfInput.I - 1] = Len(cfInput.samples) - 1


\* cut vector a comes before cut vector b in lexicographic order
LexLess(a, b) ==
    \E i \in 1..Len(a) : a[i] < b[i] /\ \A j \in 1..(i - 1) : a[j] = b[j]

\* the candidates the result is chosen from, in the order they are
\* compared: the seed, then every evaluated partition
FitCandidates ==
    LET seed == cluster_fit_seed(cfInput)
        ev == SelectSeq(cfLog, LAMBDA c : c.solved)
    IN  <<seed>> \o [n \in 1..Len(ev) |->
                        [endpoints |-> ev[n].endpoints, indices |-> ev[n].indices,
                         error |-> ev[n].error]]

\* C30: the result is the candidate of minimum total error among the seed
\* and the evaluated partitions, and among candidates of that error the
\* earliest one: the seed if no partition is strictly better, else the
\* partition with the lexicographically earliest cut vector (the
\* partitions are compared in lexicographic order of their cut vectors).
C30_StrictMinimumEarliestWins ==
    LET FirstMinimum(c, best) ==
            \E j \in 1..Len(c) :
                /\ \A m \in 1..Len(c) : ~RatLess(c[m].error, c[j].error)
                /\ \A m \in 1..(j - 1) : RatLess(c[j].error, c[m].error)
                /\ best = c[j]
    IN  /\ cfPc \in {"search", "done", "panic"} => FirstMinimum(FitCandidates, cfBest)
        /\ \A n, m \in 1..Len(cfLog) : n < m => LexLess(cfLog[n].cuts, cfLog[m].cuts)

\* a finished search in which a partition improved on the seed and a later
\* partition with other endpoints reached the same error without
\* replacing it
C30_Witness ==
    LET LaterTie(c) ==
            \E j, m \in 2..Len(c) :
                /\ j < m
                /\ cfBest = c[j]
                /\ c[m].error = cfBest.error
                /\ c[m].endpoints # cfBest.endpoints
                /\ RatLess(cfBest.error, c[1].error)
    IN  cfPc = "done" /\ LaterTie(FitCandidates)

\* a finished search in which a partition with other endpoints only
\* equals the seed's error, and the seed is returned
C30_SeedKeptOnTie ==
    LET SeedTie(c) ==
            /\ cfBest = c[1]
            /\ \E m \in 2..Len(c) :
                   /\ c[m].error = cfBest.error
                   /\ c[m].endpoints # cfBest.endpoints
    IN  cfPc = "done" /\ SeedTie(FitCandidates)


(***************************************************************************)
(* Claims about Block::encode on tiles of several colours.                 *)
(***************************************************************************)
\* Block::encode has returned for a tile that is not singular
EncodedMixedTile ==
    /\ bcTile # <<>>
    /\ ~Region3_is_singular(Region3_new(bcTile))
    /\ bcPc \in {"block", "decoded", "bytes", "restored"}

\* the palette entry the encoder assigned to texel (i, j): the colour of
\* the palette it fitted, at the index it found nearest
IntendedColor(i, j) ==
    LET c0 == Rgb565_channels(bcBlock.color0)
        c1 == Rgb565_channels(bcBlock.color1)
    IN  CASE bcFit.mode = "flat" -> Rgb_mix(c0, 6, c1, 0)
          [] bcFit.mode = "3" -> Palette3(c0, c1)[bcFit.nearest[bcTile[i][j]] + 1]
          [] bcFit.mode = "4" -> Palette4(c0, c1)[bcFit.nearest[bcTile[i][j]] + 1]

\* C31: a tile that is not singular never encodes to a block with
\* color0 = color1 (endpoints that quantise to the same value are told
\* apart by flipping a low bit), and every stored index refers to the
\* palette the decoder builds from the emitted endpoints.
C31_EqualEndpointsFlipped ==
    EncodedMixedTile =>
        /\ bcBlock.color0 # bcBlock.color1
        /\ bcPc = "decoded" =>
               \A i \in 0..3, j \in 0..3 : bcColors[i][j] = IntendedColor(i, j)

\* the second half of C31 alone: the decoder gives every texel the palette
\* entry the encoder assigned to it
C31_IndicesMatchDecoderPalette ==
    (EncodedMixedTile /\ bcPc = "decoded") =>
        \A i \in 0..3, j \in 0..3 : bcColors[i][j] = IntendedColor(i, j)


\* the two-bit field at bits 2 * col and 2 * col + 1 of a texel byte
TexelField(byte, col) ==
    ((byte \div (2 ^ (2 * col))) % 2) + 2 * ((byte \div (2 ^ (2 * col + 1))) % 2)

\* C32: the index of texel (row, col) is stored in bits 2*col .. 2*col+1
\* of texels[row]: block_encoding_3 / block_encoding_4 put the index they
\* chose for the texel in that field, and Block::decode gives the texel the
\* palette entry numbered by that field, for all sixteen positions.
C32_TexelIndexPosition ==
    /\ (EncodedMixedTile /\ bcFit.mode \in {"3", "4"}) =>
           \A row \in 0..3, col \in 0..3 :
               TexelField(bcBlock.texels[row + 1], col) = bcFit.nearest[bcTile[row][col]]
    /\ bcPc = "decoded" =>
           \A row \in 0..3, col \in 0..3 :
               bcColors[row][col]
                   = Block_palette(bcBlock)[TexelField(bcBlock.texels[row + 1], col) + 1]

\* a tile of three colours encoded in 4-colour mode with three different
\* indices, and decoded
C32_Witness ==
    /\ bcPc = "decoded"
    /\ bcTile = Tile3(<<0, 0, 0>>, <<2, 2, 2>>, <<4, 4, 4>>)
    /\ bcFit.mode = "4"
    /\ bcFit.nearest[<<0, 0, 0>>] = 0
    /\ bcFit.nearest[<<2, 2, 2>>] = 2
    /\ bcFit.nearest[<<4, 4, 4>>] = 3
    /\ bcBlock.texels = <<236, 162, 207, 47>>


(***************************************************************************)
(* math.rs: Rgb565::into_f32 and Rgb565::from_f32 in f32 arithmetic.  An   *)
(* f32 is [neg, m, e] with value m * 2^e, m = 0 or 2^23 <= m < 2^24; every *)
(* operation rounds to nearest, ties to even, as the hardware does.        *)
(***************************************************************************)
F32_MANTISSA == 8388608

F32Zero == [neg |-> FALSE, m |-> 0, e |-> 0]

RECURSIVE F32DivNorm(_, _, _, _)
\* the quotient q + r / d scaled up until q has 24 bits, then rounded
F32DivNorm(q, r, d, e) ==
    IF q >= F32_MANTISSA
    THEN LET up == 2 * r > d \/ (2 * r = d /\ q % 2 = 1)
             m == IF up THEN q + 1 ELSE q
         IN  IF m = 2 * F32_MANTISSA
             THEN [neg |-> FALSE, m |-> F32_MANTISSA, e |-> e + 1]
             ELSE [neg |-> FALSE, m |-> m, e |-> e]
    ELSE F32DivNorm(2 * q + (IF 2 * r >= d THEN 1 ELSE 0),
                    IF 2 * r >= d THEN 2 * r - d ELSE 2 * r, d, e - 1)

\* n as f32 / d as f32, for integers 0 <= n, 0 < d below 2^24
F32Div(n, d) == IF n = 0 THEN F32Zero ELSE F32DivNorm(n \div d, n % d, d, 0)

RECURSIVE F32Shift(_, _)
\* the number of low bits a product loses to fit 24 bits
F32Shift(p, s) == IF p \div (2 ^ s) < 2 * F32_MANTISSA THEN s ELSE F32Shift(p, s + 1)

\* x * (k as f32), for an integer 0 < k < 128
F32MulInt(x, k) ==
    LET p == x.m * k
        s == F32Shift(p, 0)
        q == p \div (2 ^ s)
        rem == p % (2 ^ s)
        up == 2 * rem > 2 ^ s \/ (2 * rem = 2 ^ s /\ q % 2 = 1)
        m == IF up THEN q + 1 ELSE q
    IN  IF x.m = 0 THEN x
        ELSE IF m = 2 * F32_MANTISSA
        THEN [neg |-> x.neg, m |-> F32_MANTISSA, e |-> x.e + s + 1]
        ELSE [neg |-> x.neg, m |-> m, e |-> x.e + s]

\* x.clamp(0.0, max as f32) as u16: below 0 is 0, above max is max, else
\* the fraction is dropped
F32ClampToU16(x, max) ==
    IF x.neg \/ x.m = 0 THEN 0
    ELSE IF x.e >= 0 THEN max
    ELSE IF x.e < -29 THEN 0
    ELSE Min2(max, x.m \div (2 ^ (0 - x.e)))

\* Rgb565::into_f32: channel as f32 / 31.0, / 63.0 for green
Rgb565_into_f32(bits) ==
    <<F32Div(Rgb565_channels(bits)[1], 31), F32Div(Rgb565_channels(bits)[2], 63),
      F32Div(Rgb565_channels(bits)[3], 31)>>

\* Rgb565::from_f32 on f32 channels
Rgb565_from_Rgb32F(rgb) ==
    F32ClampToU16(F32MulInt(rgb[1], 31), 31) * 2048
    + F32ClampToU16(F32MulInt(rgb[2], 63), 63) * 32
    + F32ClampToU16(F32MulInt(rgb[3], 31), 31)

(***************************************************************************)
(* Quantisation session: an Rgb565 is unpacked with into_f32, or an Rgb32F *)
(* is given, and Rgb565::from_f32 is applied to the colour.                *)
(***************************************************************************)
\* n / 2^k as an f32, n # 0
F32Dyadic(n, k) ==
    LET a == IF n < 0 THEN 0 - n ELSE n
        x == F32DivNorm(a, 0, 1, 0)
    IN  [neg |-> n < 0, m |-> x.m, e |-> x.e - k]

\* channel values -1/4, 0, 1/64, 1/4, 1/2, 3/4, 63/64, 1 and 2
QuantiseChannels ==
    {F32Zero, F32Dyadic(-1, 2), F32Dyadic(1, 6), F32Dyadic(1, 2), F32Dyadic(1, 1),
     F32Dyadic(3, 2), F32Dyadic(63, 6), F32Dyadic(1, 0), F32Dyadic(2, 0)}

InitQuantise ==
    /\ IdleExceptQuantise
    /\ \/ /\ \E r \in 0..31, g \in 0..63 : qzBits = <<r * 2048 + g * 32 + (31 - r)>>
          /\ qzColor = <<>>
          /\ qzPc = "bits"
       \/ /\ qzBits = <<>>
          /\ \E r \in QuantiseChannels, g \in QuantiseChannels :
                qzColor = <<r, g, r>>
          /\ qzPc = "color"
    /\ qzBack = <<>>

\* color.into_f32()
QzUnpack ==
    /\ qzPc = "bits"
    /\ qzColor' = Rgb565_into_f32(qzBits[1])
    /\ qzPc' = "color"
    /\ UNCHANGED <<qzBits, qzBack>>
    /\ UNCHANGED notQzVars

\* Rgb565::from_f32(color)
QzQuantise ==
    /\ qzPc = "color"
    /\ qzBack' = <<Rgb565_from_Rgb32F(qzColor)>>
    /\ qzPc' = "done"
    /\ UNCHANGED <<qzBits, qzColor>>
    /\ UNCHANGED notQzVars

NextQuantise == QzUnpack \/ QzQuantise

SpecQuantise == InitQuantise /\ [][NextQuantise]_vars

(***************************************************************************)
(* Claims about colour quantisation                                        *)
(***************************************************************************)
\* floor(m * 2^e * max + 1/2) clamped to 0..max, computed on the exact value
\* of the channel
NearestLevel(x, max) ==
    IF x.neg \/ x.m = 0 THEN 0
    ELSE IF x.e >= 0 THEN max
    ELSE IF x.e < -29 THEN 0
    ELSE LET den == 2 ^ (0 - x.e)
             whole == x.m \div den
             frac == x.m % den
         IN  \* whole * max + round(frac * max / den), frac * max < 2^30
             Min2(max, whole * max + (2 * frac * max + den) \div (2 * den))

\* C33: Rgb565::from_f32 maps a channel c of w bits to round(c * (2^w - 1))
\* clamped to 0 .. 2^w - 1, and so gives back every Rgb565 colour from its
\* unpacked value.
C33_QuantiseToNearest ==
    qzPc = "done" =>
        /\ Rgb565_channels(qzBack[1])
               = <<NearestLevel(qzColor[1], 31), NearestLevel(qzColor[2], 63),
                   NearestLevel(qzColor[3], 31)>>
        /\ qzBits # <<>> => qzBack = qzBits

\* the consequence alone: quantising the unpacked value of an Rgb565
\* returns that Rgb565
C33_UnpackedValueComesBack ==
    (qzPc = "done" /\ qzBits # <<>>) => qzBack = qzBits


\* C34: for the k-th codeword of any stream (k >= 1) the width with which
\* the decoder reads it equals the width with which the encoder wrote it,
\* at every point where the width grows by one bit included.
C34_SameWidthBothSides ==
    lzwLog.kind = "encoded" =>
        /\ Len(lzwLog.reads) <= Len(lzwLog.codes)
        /\ \A k \in 1..Len(lzwLog.reads) :
               lzwLog.reads[k].bits = lzwLog.codes[k].bits

\* the decoder has read a stream across both growths: 8 to 9 bits at the
\* second codeword, 9 to 10 bits once next_code has passed 512
C34_Witness ==
    /\ lzwLog.kind = "encoded"
    /\ Len(lzwLog.reads) >= T_ENTRIES + 2
    /\ lzwLog.reads[1].bits = 8
    /\ lzwLog.reads[2].bits = 9
    /\ lzwLog.reads[T_ENTRIES + 1].bits = 9
    /\ lzwLog.reads[T_ENTRIES + 2].bits = 10


\* C35: the header parser consumes exactly as many bytes as the header
\* writer produced: after a successful read_header over a written container
\* the reader stands at the first byte of the super-block index, and
\* read_jackal_blocks reads every index entry from the position at which
\* the writer stored it, so it reads the offsets the writer stored.
C35_HeaderReadStopsAtIndex ==
    hdrPc = "index" =>
        \A w \in WrittenFiles :
            (hdrInput = w.out /\ hdrResult[1].gen = w.gen) =>
                /\ hdrResult[1].res.read = w.header_len
                /\ hdrIndex[1].err = "none"
                /\ hdrIndex[1].entries = w.entries

\* the same for the containers of jackal.rs alone
C35_Jkl0HeaderReadStopsAtIndex ==
    (hdrPc = "index" /\ hdrResult[1].gen = "JKL0") =>
        \A w \in WrittenFiles :
            hdrInput = w.out =>
                /\ hdrResult[1].res.read = w.header_len
                /\ hdrIndex[1].err = "none"
                /\ hdrIndex[1].entries = w.entries


\* C36: header parsing is total: for every 20-byte input, configuration
\* words whose mip-level digit is 30 or more and raw_size triples with
\* zero components included, read_header of jackal.rs returns a header or
\* an error value and never aborts the program.
C36_HeaderParsingTotal ==
    (/\ hdrPc = "read"
     /\ hdrResult[1].gen = "JKL0"
     /\ Len(hdrInput) = JackalHeader_BYTES_SIZE)
    => /\ hdrResult[1].res.err \in {"none", "Io", "InvalidHeader", "UnsupportedFormat",
                                    "InvalidExtent"}
       /\ hdrResult[1].res.err = "none" <=> hdrResult[1].res.header # <<>>

\* every 20-byte input whose mip-level digit is below 30 gets an answer
C36_InRangeLevelsAnswered ==
    (/\ hdrPc = "read"
     /\ hdrResult[1].gen = "JKL0"
     /\ Len(hdrInput) = JackalHeader_BYTES_SIZE
     /\ (SubSeq(hdrInput, 1, 4) = MAGIC_VER_0
         => u32_from_le_bytes(SubSeq(hdrInput, 5, 8))
            \div (Format_COUNT * Footprint_COUNT * Dimensions_COUNT) < MipLevels_COUNT))
    => /\ hdrResult[1].res.err \in {"none", "Io", "InvalidHeader", "UnsupportedFormat",
                                    "InvalidExtent"}
       /\ hdrResult[1].res.err = "none" <=> hdrResult[1].res.header # <<>>


\* block k (counted from 0) lies in the part of the grid that super-block i
\* (counted from 0, in z, y, x order) covers
InSuperBlock(k, i) ==
    LET raw_size == Extent_raw_size(jkExtent)
        footprint == compress_texture_header(jkExtent).footprint
        super_pos == SuperPos(JackalHeader_jackal_blocks_extent(
                                  compress_texture_header(jkExtent)), i)
    IN  /\ (k % raw_size[1]) \div footprint[1] = super_pos[1]
        /\ ((k \div raw_size[1]) % raw_size[2]) \div footprint[2] = super_pos[2]
        /\ k \div (raw_size[1] * raw_size[2]) = super_pos[3]

EncoderCandidates(mode, c0, c1) ==
    IF mode = "3"
    THEN <<Rgb_mix(c0, 6, c1, 0), Rgb_mix(c0, 3, c1, 3), Rgb_mix(c0, 0, c1, 6)>>
    ELSE <<Rgb_mix(c0, 6, c1, 0), Rgb_mix(c0, 4, c1, 2), Rgb_mix(c0, 2, c1, 4),
           Rgb_mix(c0, 0, c1, 6)>>

\* C38: the block encoder and the block decoder agree on the palette mode:
\* when the encoder chose the four-colour palette for a tile the endpoint
\* order it emits makes the decoder build the four-colour palette, when it
\* chose the three-colour palette the decoder builds the three-colour one,
\* and every stored index selects the colour the encoder meant by it.
C38_PaletteModeAgrees ==
    (EncodedMixedTile /\ bcFit.mode \in {"3", "4"}) =>
        LET c0 == Rgb565_channels(bcBlock.color0)
            c1 == Rgb565_channels(bcBlock.color1)
        IN  /\ bcFit.mode = "4" => Block_palette(bcBlock) = Palette4(c0, c1)
            /\ bcFit.mode = "3" => Block_palette(bcBlock) = Palette3(c0, c1)
            /\ bcPc = "decoded" =>
                   \A i \in 0..3, j \in 0..3 :
                       bcColors[i][j]
                       = EncoderCandidates(bcFit.mode, c0, c1)[bcFit.nearest[bcTile[i][j]] + 1]

\* a tile fitted in 4-colour mode along a diagonal whose first end
\* quantises above its second, so that the encoder swapped them, decoded
\* with a texel on an interpolated colour
C38_Witness ==
    /\ EncodedMixedTile
    /\ bcPc = "decoded"
    /\ bcFit.mode = "4"
    /\ LET Swapped(ep) ==
               /\ Rgb565_from_f32(ep[1]) > Rgb565_from_f32(ep[2])
               /\ bcBlock.color0 = Rgb565_from_f32(ep[2])
               /\ bcBlock.color1 = Rgb565_from_f32(ep[1])
       IN  Swapped(Region3_diagonals(Region3_new(bcTile))[bcFit.diagonal])
    /\ \E i \in 0..3, j \in 0..3 : bcFit.nearest[bcTile[i][j]] \in {1, 2}


\* C39: in the encoder dictionary entry i always has a prefix code strictly
\* smaller than its own code 256 + i and no two entries share the same
\* (prefix, symbol) pair; consequently the dictionary search, which starts
\* at position max(0, prefix - 256), never skips an entry that matches the
\* searched pair: it finds every entry the dictionary holds, at its place.
C39_LookupSkipsNoMatch ==
    lzwPc = "encode" =>
        LET Holds(entries) ==
                /\ \A i \in 0..(Len(entries) - 1) :
                       /\ entries[i + 1].prefix >= 0
                       /\ entries[i + 1].prefix < T_ENTRIES + i
                       /\ Encoder_lookup(encoder, entries[i + 1]) = <<T_ENTRIES + i>>
                /\ \A i, j \in 1..Len(entries) : entries[i] = entries[j] => i = j
        IN  Holds(encoder.entries)

\* the search for (257, 1) started at position 1 and found the entry at
\* position 2: the encoder's prefix is the code 258 it answered
C39_Witness ==
    /\ lzwPc = "encode"
    /\ encoder.prefix # <<>>
    /\ encoder.prefix[1] >= T_ENTRIES + 2
    /\ encoder.entries[encoder.prefix[1] - T_ENTRIES + 1].prefix >= T_ENTRIES + 1


\* C40: after the decoder has returned exactly as many symbols as were
\* given to the encoder it has no decoded-but-unconsumed output left, so
\* Decoder::finish does not hit its "output was not consumed" abort.
C40_OutputConsumedAtEnd ==
    (lzwLog.kind = "encoded" /\ Len(decoded) = Len(input)) =>
        /\ lzwPc \in {"encode", "decode", "done"}
        /\ lzwPc \in {"decode", "done"} =>
               /\ Decoder_finish(decoder) = "ok"
               /\ decoder.output.tag = "Range"
               /\ Len(lzwLog.reads) = Len(lzwLog.codes)

\* finish has returned after a stream whose last codeword stood for several
\* symbols: the range it left is used up
C40_Witness ==
    /\ lzwLog.kind = "encoded"
    /\ lzwPc = "done"
    /\ Len(decoded) = Len(input)
    /\ Len(lzwLog.reads) >= 2
    /\ lzwLog.reads[Len(lzwLog.reads)].index >= T_ENTRIES
    /\ decoder.output.start = decoder.output.end
    /\ decoder.output.end > 0

\* the same at the end of every super-block of a written container
C40_NoAbortInContainer ==
    /\ jkResult # <<>> => jkResult[1].err # "panic"
    /\ jkPc = "error" => (jkHeader # <<>> /\ jkHeader[1].err = "none" /\ Len(jkDone) >= 1)

====
